---- MODULE Spec2Model ----
(***************************************************************************)
(* State-machine model of the sound-masking engine:                        *)
(*   src/src/audio/AudioEngine.ts     (AudioEngine)                        *)
(*   src/src/audio/ImpactDetector.ts  (ImpactDetector)                     *)
(*                                                                         *)
(* Numbers.  Every real quantity of the program (energies, gains, scores)  *)
(* is a fixed-point integer: the real x is the integer x * Unit, products  *)
(* are rounded toward zero.  Audio-clock time is counted in steps of       *)
(* 0.05 s (StepsPerSecond steps per second).                               *)
(***************************************************************************)
EXTENDS Integers, Sequences, FiniteSets, TLC

\* ------------------------------------------------------------------ numbers

\* fixed-point one
Unit == 100 * 100

\* audio-clock steps per second (one step = 0.05 s)
StepsPerSecond == 4 * 5

Min(a, b) == IF a < b THEN a ELSE b

Max(a, b) == IF a > b THEN a ELSE b

Abs(a) == IF a < 0 THEN -a ELSE a

\* a * b / d on integers, rounded toward zero
MulDiv(a, b, d) == IF a * b >= 0 THEN (a * b) \div d ELSE -((-(a * b)) \div d)

\* fixed-point product
Mul(a, b) == MulDiv(a, b, Unit)

\* e^(-x) for a fixed-point x >= 0 (Taylor series below 1/2, squaring above)
RECURSIVE ExpNeg(_)
ExpNeg(x) ==
    IF x > 12 * Unit THEN 0
    ELSE IF x > Unit \div 2 THEN LET h == ExpNeg(x \div 2) IN Mul(h, h)
    ELSE LET x2 == Mul(x, x)
             x3 == Mul(x2, x)
             x4 == Mul(x3, x)
         IN  Unit - x + x2 \div 2 - x3 \div 6 + x4 \div 24

\* ln(x) for a fixed-point x >= 1 (atanh series, halving the exponent above 2)
RECURSIVE Ln(_)
Ln(x) ==
    IF x > 2 * Unit
    THEN 6931 + Ln(x \div 2)
    ELSE LET z  == MulDiv(x - Unit, Unit, x + Unit)
             z2 == Mul(z, z)
             z3 == Mul(z2, z)
             z5 == Mul(z3, z2)
             z7 == Mul(z5, z2)
         IN  2 * (z + z3 \div 3 + z5 \div 5 + z7 \div 7)

\* ---------------------------------------------------------------- AudioParam
\* A gain AudioParam: the value computed by the last render quantum and the
\* automation timeline, a sequence of events ordered by time.  Events that
\* lie in the past and are superseded by a later past event are dropped.

NewParam(v) == [value |-> v, events |-> <<>>]

Event(type, v, t, tc, v0) == [type |-> type, value |-> v, time |-> t, tc |-> tc, v0 |-> v0]

IsRamp(e) == e.type \in {"linearRamp", "exponentialRamp"}

\* number of events with time <= t (the timeline is ordered by time)
CountUpTo(events, t) == Cardinality({i \in 1..Len(events) : events[i].time <= t})

\* drop the past events that no longer decide anything at time now
Prune(events, now) ==
    LET k == CountUpTo(events, now)
    IN  IF k <= 1 THEN events ELSE SubSeq(events, k, Len(events))

\* insert e after every event whose time is <= e.time
InsertEvent(events, e) ==
    LET k == CountUpTo(events, e.time)
    IN  SubSeq(events, 1, k) \o <<e>> \o SubSeq(events, k + 1, Len(events))

\* AudioParam.cancelScheduledValues(t): every event with time >= t is removed
CancelScheduledValues(p, t) ==
    [p EXCEPT !.events = SelectSeq(p.events, LAMBDA e : e.time < t)]

\* AudioParam.setValueAtTime(v, t)
SetValueAtTime(p, v, t) ==
    [p EXCEPT !.events = InsertEvent(p.events, Event("setValue", v, t, 0, v))]

\* AudioParam.linearRampToValueAtTime(v, t)
LinearRampToValueAtTime(p, v, t) ==
    [p EXCEPT !.events = InsertEvent(p.events, Event("linearRamp", v, t, 0, v))]

\* AudioParam.exponentialRampToValueAtTime(v, t)
ExponentialRampToValueAtTime(p, v, t) ==
    [p EXCEPT !.events = InsertEvent(p.events, Event("exponentialRamp", v, t, 0, v))]

\* AudioParam.setTargetAtTime(target, t, tc), called with t = currentTime:
\* the approach starts from the value the param has at the call
SetTargetAtTime(p, target, t, tc) ==
    [p EXCEPT !.events =
        Prune(InsertEvent(p.events, Event("setTarget", target, t, tc, p.value)), t)]

\* value of an exponential ramp from (v0, t0) to (v1, t1) at time t
ExpRampValue(v0, t0, v1, t1, t) ==
    IF v0 <= 0 \/ v1 <= 0 \/ v0 = v1 THEN v0
    ELSE IF v0 > v1
         THEN Mul(v0, ExpNeg(MulDiv(Ln(MulDiv(v0, Unit, v1)), t - t0, t1 - t0)))
         ELSE Mul(v1, ExpNeg(MulDiv(Ln(MulDiv(v1, Unit, v0)), t1 - t, t1 - t0)))

\* value of a linear ramp from (v0, t0) to (v1, t1) at time t
LinRampValue(v0, t0, v1, t1, t) == v0 + MulDiv(v1 - v0, t - t0, t1 - t0)

\* The value the render thread computes for time tNew, the value at tOld
\* being p.value.
ParamValueAt(p, tOld, tNew) ==
    LET ev == p.events
        k  == CountUpTo(ev, tNew)
    IN  IF k < Len(ev) /\ IsRamp(ev[k + 1])
        THEN LET e  == ev[k + 1]
                 \* a ramp starts at the previous event; after a setTarget
                 \* (or with no previous event) it starts from the running value
                 fromNow == k = 0 \/ ev[k].type = "setTarget"
                 v0 == IF fromNow THEN p.value ELSE ev[k].value
                 t0 == IF fromNow THEN tOld ELSE ev[k].time
             IN  IF e.type = "linearRamp"
                 THEN LinRampValue(v0, t0, e.value, e.time, tNew)
                 ELSE ExpRampValue(v0, t0, e.value, e.time, tNew)
        ELSE IF k = 0 THEN p.value
        ELSE IF ev[k].type = "setTarget"
             THEN ev[k].value
                  + Mul(ev[k].v0 - ev[k].value,
                        ExpNeg(MulDiv(tNew - ev[k].time, Unit, ev[k].tc)))
             ELSE ev[k].value

\* one render step of a param: its new value, and the timeline pruned
RenderParam(p, tOld, tNew) ==
    [value |-> ParamValueAt(p, tOld, tNew), events |-> Prune(p.events, tNew)]

\* ------------------------------------------------------------ ImpactDetector

\* DETECTION_BANDS: band id -> frequency range in Hz
DETECTION_BANDS ==
    [ultra_low    |-> [minFreq |-> 20,   maxFreq |-> 50],
     footsteps    |-> [minFreq |-> 50,   maxFreq |-> 100],
     light_impact |-> [minFreq |-> 100,  maxFreq |-> 300],
     hard_impact  |-> [minFreq |-> 300,  maxFreq |-> 1000],
     low_freq     |-> [minFreq |-> 50,   maxFreq |-> 250],
     voice_male   |-> [minFreq |-> 100,  maxFreq |-> 500],
     voice_female |-> [minFreq |-> 300,  maxFreq |-> 3000],
     high_freq    |-> [minFreq |-> 2000, maxFreq |-> 8000]]

BandIds == DOMAIN DETECTION_BANDS

\* SIMPLE_MODES: mode id -> band ids, in order
SIMPLE_MODES ==
    [footsteps_all |-> <<"ultra_low", "footsteps", "light_impact">>,
     impact_all    |-> <<"ultra_low", "footsteps", "light_impact", "hard_impact">>,
     voice_all     |-> <<"voice_male", "voice_female">>,
     all           |-> <<>>]

\* keys of the baseline map: the band ids, the pseudo-band 'all', and one id
\* that names no band
BaselineKeys == BandIds \cup {"all", "unknown_band"}

\* a key with no entry in the baseline map
Absent == 0 - 1

\* a cooldown one tick short
MAX_IMPACT_COOLDOWN_Short == 20 - 1

\* MAX_IMPACT_COOLDOWN = 20, the ticks between two impacts
MAX_IMPACT_COOLDOWN == 20

\* BASELINE_SMOOTHING = 0.98, in hundredths
BASELINE_SMOOTHING == 98

\* the smoothing of a rising baseline, 0.95, in hundredths
RISE_SMOOTHING == 95

\* the smoothing of the noise score, 0.92, in hundredths
SCORE_SMOOTHING == 92

\* analyser.frequencyBinCount = fftSize / 2
FrequencyBinCount == 1024

\* the sample rate of the audio context (the constructor's default)
SampleRate == 44100

\* The analyser's byte spectrum is piecewise constant: the bins below
\* SplitBin hold fd.lo, the bins from SplitBin on hold fd.hi.
SplitBin == 2 * 7

FrequencyByte(fd, i) == IF i < SplitBin THEN fd.lo ELSE fd.hi

\* freqToBin: Math.round((freq / nyquist) * binCount)
FreqToBin(freq) == (2 * freq * FrequencyBinCount * 2 + SampleRate) \div (2 * SampleRate)

\* sum / count / 255 for a sum of count bytes, in fixed point
MeanByte(sum, count) ==
    ((sum \div count) * Unit + ((sum % count) * Unit) \div count) \div 255

\* the sum of the bytes of the bins minBin..maxBin, nLow of them below SplitBin
ByteSum(fd, minBin, maxBin, nLow) ==
    nLow * fd.lo + (maxBin - minBin + 1 - nLow) * fd.hi

\* the body of getBandEnergy for the bins minBin..maxBin
BinsEnergy(fd, minBin, maxBin) ==
    IF minBin >= maxBin THEN 0
    ELSE MeanByte(ByteSum(fd, minBin, maxBin,
                          Max(0, Min(maxBin, SplitBin - 1) - minBin + 1)),
                  maxBin - minBin + 1)

\* getBandEnergy: the mean byte of the bins minBin..maxBin, over 255
GetBandEnergy(fd, minFreq, maxFreq) ==
    BinsEnergy(fd, Max(0, FreqToBin(minFreq)),
               Min(FrequencyBinCount - 1, FreqToBin(maxFreq)))

\* a baseline that starts from 0 where the map has no entry
BaselineOrZero(baselines, bandId, energy) ==
    IF baselines[bandId] = Absent THEN 0 ELSE baselines[bandId]

\* baselineEnergies.get(bandId) || energy: an absent or zero entry is falsy
BaselineOr(baselines, bandId, energy) ==
    IF baselines[bandId] = Absent \/ baselines[bandId] = 0
    THEN energy ELSE baselines[bandId]

\* a smoothing whose rise is slower than its fall
SmoothedBaselineSlowRise(prevBaseline, currentEnergy) ==
    IF currentEnergy < prevBaseline
    THEN (prevBaseline * BASELINE_SMOOTHING
          + currentEnergy * (100 - BASELINE_SMOOTHING)) \div 100
    ELSE (prevBaseline * 99 + currentEnergy) \div 100

\* the smoothed baseline before the floor is applied
SmoothedBaseline(prevBaseline, currentEnergy) ==
    IF currentEnergy < prevBaseline
    THEN (prevBaseline * BASELINE_SMOOTHING
          + currentEnergy * (100 - BASELINE_SMOOTHING)) \div 100
    ELSE (prevBaseline * RISE_SMOOTHING
          + currentEnergy * (100 - RISE_SMOOTHING)) \div 100

\* a baseline update without the floor of the masking noise
UpdateBaselineUnfloored(baselines, currentNoiseGain, bandId, currentEnergy) ==
    [baselines EXCEPT ![bandId] =
        SmoothedBaseline(BaselineOr(baselines, bandId, currentEnergy), currentEnergy)]

\* updateBaseline: the new baseline map
UpdateBaseline(baselines, currentNoiseGain, bandId, currentEnergy) ==
    LET prevBaseline      == BaselineOr(baselines, bandId, currentEnergy)
        noiseContribution == MulDiv(currentNoiseGain, 3, 10)
        newBaseline       == SmoothedBaseline(prevBaseline, currentEnergy)
    IN  [baselines EXCEPT ![bandId] = Max(newBaseline, noiseContribution)]

NoBaselines == [k \in BaselineKeys |-> Absent]

\* impactThreshold = 0.3 * (1.0 - sensitivity) + 0.05
ImpactThreshold(sensitivity) == MulDiv(Unit - sensitivity, 3, 10) + Unit \div 20

\* intensity = Math.min(maxDeviation * 3, 1.0)
ImpactIntensity(maxDeviation) == Min(maxDeviation * 3, Unit)

\* a detector as its constructor leaves it (setSimpleMode('all') included)
NewDetector ==
    [isRunning            |-> FALSE,
     animationFrameId     |-> 0,
     sensitivity          |-> Unit \div 2,
     enabledBandIds       |-> <<>>,
     isSimpleMode         |-> TRUE,
     baselineEnergies     |-> NoBaselines,
     impactCooldownFrames |-> 0,
     noiseScore           |-> 0,
     reactiveEnabled      |-> TRUE,
     currentNoiseGain     |-> 0]

\* setSimpleMode(modeId)
setSimpleMode(det, modeId) ==
    [det EXCEPT !.isSimpleMode = TRUE,
                !.baselineEnergies = NoBaselines,
                !.enabledBandIds = IF modeId \in DOMAIN SIMPLE_MODES
                                   THEN SIMPLE_MODES[modeId] ELSE <<>>]

\* a sequence without its repeated elements (Set insertion order)
RECURSIVE Dedup(_)
Dedup(ids) ==
    IF ids = <<>> THEN <<>>
    ELSE LET front == Dedup(SubSeq(ids, 1, Len(ids) - 1))
             last  == ids[Len(ids)]
         IN  IF \E i \in 1..Len(front) : front[i] = last
             THEN front ELSE Append(front, last)

\* setDetailedMode(bandIds)
setDetailedMode(det, bandIds) ==
    [det EXCEPT !.isSimpleMode = FALSE,
                !.baselineEnergies = NoBaselines,
                !.enabledBandIds = Dedup(bandIds)]

\* toggleBand(bandId, enabled)
toggleBand(det, bandId, enabled) ==
    [det EXCEPT !.enabledBandIds =
        IF enabled
        THEN Dedup(Append(det.enabledBandIds, bandId))
        ELSE SelectSeq(det.enabledBandIds, LAMBDA b : b # bandId)]

\* one band's deviation taken into the sums of loop()
Accumulate(acc, bandId, deviation, baselines) ==
    [totalDeviation     |-> acc.totalDeviation + deviation,
     maxDeviation       |-> IF deviation > acc.maxDeviation
                            THEN deviation ELSE acc.maxDeviation,
     maxDeviationBandId |-> IF deviation > acc.maxDeviation
                            THEN bandId ELSE acc.maxDeviationBandId,
     baselines          |-> baselines]

\* the deviation of an energy from its band's baseline, and the baseline's update
BandDeviation(acc, noiseGain, bandId, energy) ==
    Accumulate(acc, bandId,
               Max(0, energy - BaselineOr(acc.baselines, bandId, energy)),
               UpdateBaseline(acc.baselines, noiseGain, bandId, energy))

\* The per-band pass of loop(), over enabledBandIds[i..]: acc carries
\* totalDeviation, maxDeviation, maxDeviationBandId and the baseline map.
RECURSIVE BandPass(_, _, _, _, _)
BandPass(ids, i, fd, noiseGain, acc) ==
    IF i > Len(ids) THEN acc
    ELSE IF ids[i] \notin BandIds THEN BandPass(ids, i + 1, fd, noiseGain, acc)
    ELSE BandPass(ids, i + 1, fd, noiseGain,
             BandDeviation(acc, noiseGain, ids[i],
                 GetBandEnergy(fd, DETECTION_BANDS[ids[i]].minFreq,
                               DETECTION_BANDS[ids[i]].maxFreq)))

\* the sums of loop() before any band is taken in
NoDeviation(baselines) ==
    [totalDeviation |-> 0, maxDeviation |-> 0,
     maxDeviationBandId |-> "undefined", baselines |-> baselines]

\* a total that is left as the sum over the bands
NotAveraged(acc, size) == acc

\* totalDeviation /= enabledBandIds.size
Averaged(acc, size) == [acc EXCEPT !.totalDeviation = acc.totalDeviation \div size]

\* The deviations of one tick of loop(): the full-spectrum branch or the
\* per-band branch with its averaging.
Deviations(det, fd) ==
    IF Len(det.enabledBandIds) = 0
    THEN [BandDeviation(NoDeviation(det.baselineEnergies), det.currentNoiseGain,
                        "all", GetBandEnergy(fd, 20, 20000))
             EXCEPT !.maxDeviationBandId = "undefined"]
    ELSE Averaged(BandPass(det.enabledBandIds, 1, fd, det.currentNoiseGain,
                           NoDeviation(det.baselineEnergies)),
                  Len(det.enabledBandIds))

\* a score that takes in the deviation and never decays
NextNoiseScoreKept(noiseScore, totalDeviation) ==
    noiseScore + MulDiv(totalDeviation, 100 - SCORE_SMOOTHING, 100)

\* noiseScore = noiseScore * smoothing + totalDeviation * (1 - smoothing)
NextNoiseScore(noiseScore, totalDeviation) ==
    (noiseScore * SCORE_SMOOTHING + totalDeviation * (100 - SCORE_SMOOTHING)) \div 100

\* a cooldown that is never counted down
CooldownKept(frames) == frames

\* the cooldown counter after the decrement at the top of loop()
CooldownAfterDecrement(frames) == IF frames > 0 THEN frames - 1 ELSE frames

\* an impact condition that forgets the cooldown
ImpactFiresInCooldown(reactiveEnabled, cooldown, maxDeviation, sensitivity) ==
    reactiveEnabled /\ maxDeviation > ImpactThreshold(sensitivity)

\* whether this tick of loop() calls onImpact
ImpactFires(reactiveEnabled, cooldown, maxDeviation, sensitivity) ==
    reactiveEnabled /\ cooldown = 0 /\ maxDeviation > ImpactThreshold(sensitivity)

\* -------------------------------------------------------------------- bounds

\* getUserMedia requests issued in a run (one stream, one detector each)
MaxMicRequests == 2

\* init() calls in a run
MaxInitCalls == 1

\* audio-clock steps in a run
MaxTime == 14

\* animation frames in a run
MaxFrames == 24

\* calls of the engine's methods by the user interface in a run
MaxCalls == 3

\* calls of the user interface that change a setting in a run
MaxSettings == 1
AdaptiveFrames == 16
MaxSoundCalls == 4
MaxClock == 7
LoadCalls == 2
MixerCalls == 2
BaselineTicks == 300
LoadClock == 4

\* animation frames in a run of starts and stops
LifecycleFrames == 3

\* animation frames in a run that changes the detector's bands
ModeFrames == 4

\* animation frames in a run that follows an envelope on the audio clock
EnvelopeFrames == 4

\* steps of the audio clock in a run with impacts that follow one another
RetriggerTime == 3

\* animation frames in a long run of ticks
LongRun == 44

\* ---------------------------------------------------------------------- state

VARIABLES
    engine,     \* the AudioEngine's fields
    detectors,  \* the ImpactDetector instances created so far, by number
    audio,      \* the audio context: its state, clock, gain params, frames
    mic,        \* the microphone: requests in flight, streams, input nodes
    sound,      \* the soundscape layers, their loads in flight, the stop timers
    calc,       \* the inputs and results of the functions run on their own
    obs         \* what the last operations did (history, read by the claims)

vars == <<engine, detectors, audio, mic, sound, calc, obs>>

DetIds == 1..MaxMicRequests

\* the byte levels a region of the microphone spectrum takes
ByteLevels == {0, 135, 255}

Spectra == [lo : ByteLevels, hi : ByteLevels]

\* the spectra with the same level in every bin
FlatSpectra == {fd \in Spectra : fd.lo = fd.hi}

Silence == [lo |-> 0, hi |-> 0]

NoTick == [det |-> 0, ran |-> FALSE]

NoImpact == [handled |-> FALSE]

NoRender == [ran |-> FALSE]
NoApplied == [ran |-> FALSE]

\* the whole state as one record, so that a handler is a function of it
World ==
    [e |-> engine, d |-> detectors, a |-> audio, m |-> mic, s |-> sound,
     c |-> calc, o |-> obs]

Becomes(w) ==
    /\ engine' = w.e
    /\ detectors' = w.d
    /\ audio' = w.a
    /\ mic' = w.m
    /\ sound' = w.s
    /\ calc' = w.c
    /\ obs' = w.o

InitEngine ==
    [ctx                    |-> 0,
     hasGraph               |-> FALSE,
     isInitialized          |-> FALSE,
     baseVolume             |-> Unit \div 10,
     isAutoMode             |-> FALSE,
     adaptiveGain           |-> 0,
     adaptiveTargetGain     |-> 0,
     adaptiveAnimationId    |-> 0,
     reactiveBoostStrength  |-> (3 * Unit) \div 10,
     reactiveBoostDuration  |-> 10,
     adaptiveSpeedValue     |-> Unit \div 2,
     adaptiveDecayValue     |-> Unit \div 2,
     isExplicitlyStopped    |-> FALSE,
     isFluctuationEnabled   |-> FALSE,
     fluctuationStrength    |-> 0,
     fluctuationAnimationId |-> 0,
     inputScanParams        |-> [stream |-> 0, source |-> 0, gain |-> 0, analyser |-> 0],
     detector               |-> 0]

InitAudio ==
    [ctxState         |-> "none",
     currentTime      |-> 0,
     contexts         |-> 0,
     graphs           |-> 0,
     initAwaiting     |-> 0,
     initCalls        |-> 0,
     adaptiveParam    |-> NewParam(Unit),
     reactiveParam    |-> NewParam(Unit),
     fluctuationParam |-> NewParam(Unit),
     eqFilters        |-> <<>>,   \* the target gain of each EQ filter, in dB
     baseTarget       |-> 0,      \* the targets last scheduled on the base,
     noiseTarget      |-> Unit,   \* noise master and sub-bass gains
     subBassTarget    |-> 0,
     noiseMix         |-> [w |-> 0, p |-> 0, b |-> 0, d |-> 0],   \* the worklet's gains
     frames           |-> <<>>]

InitMic ==
    [pending       |-> 0,
     issued        |-> 0,
     created       |-> 0,
     streams       |-> [k \in DetIds |-> "none"],
     connected     |-> [k \in DetIds |-> FALSE],
     frequencyData |-> Silence,
     phase         |-> "before"]

\* the ids of the sound assets
LayerIds == {"rain_summer", "underwater"}

\* a layer as loadSound creates it; loaded is FALSE while layers has no entry
NewLayer ==
    [loaded     |-> TRUE,
     volume     |-> 0,
     isPlaying  |-> FALSE,
     hasSource  |-> FALSE,
     gainTarget |-> 0]

NoLayer == [NewLayer EXCEPT !.loaded = FALSE]

InitSound ==
    [layers    |-> [id \in LayerIds |-> NoLayer],
     requested |-> [id \in LayerIds |-> FALSE],
     promise   |-> [id \in LayerIds |-> "none"],
     reload    |-> [id \in LayerIds |-> "none"],
     timers    |-> <<>>,
     clock     |-> 0]

\* no function is run on its own
NoCalc == [kind |-> "none"]

NoStop == [ran |-> FALSE]
NoSoundCall == [ran |-> FALSE]
NoGainCall == [ran |-> FALSE, scheduled |-> FALSE]

NoSpike == [seen |-> FALSE]

NoRun == [len |-> 0, valid |-> FALSE, firedAt |-> {}]

\* the length up to which a run of loud ticks is followed
RunLength == 2 * 20

InitObs ==
    [op          |-> "none",     \* the last operation
     lastCall    |-> "none",     \* the last call made by the user interface
     frames      |-> 0,          \* animation frames so far
     calls       |-> 0,          \* calls that start or stop something so far
     settings    |-> 0,          \* calls that change a setting so far
     tick        |-> NoTick,     \* the detector tick of the last operation
     sinceImpact |-> [k \in DetIds |-> Absent],  \* ticks since k's last impact
     impact      |-> NoImpact,   \* the impact handled by the last operation
     render      |-> NoRender,   \* the gains before the last operation's render step
     applied     |-> NoApplied,  \* the adaptive multiplier the last operation applied
     starts      |-> [id \in LayerIds |-> 0],     \* startSound runs so far
     stops       |-> [id \in LayerIds |-> 0],     \* stopSound runs that stopped a source
     volumeCalls |-> [id \in LayerIds |-> <<>>],  \* setSoundVolume calls on the loaded layer
     stopped     |-> NoStop,     \* the playback the last operation stopped
     soundCalls  |-> 0,          \* calls of setSoundVolume so far
     gainCall    |-> NoGainCall, \* the mixer call of the last operation, the state before it
     scoreUpdates |-> <<>>,      \* the scores the last operation reported, in order
     ticksInOp   |-> 0,          \* the detector ticks the last operation ran
     soundCall   |-> NoSoundCall, \* the layer the last operation was about, the layers before it
     impacts     |-> 0,          \* impacts fired so far (counted up to 3)
     loudTicks   |-> 0,          \* ticks run while the sound was on (up to 2)
     spike       |-> NoSpike,    \* the first tick run while the sound was on
     run         |-> NoRun]      \* the current run of ticks above threshold 0.05

Init ==
    /\ engine = InitEngine
    /\ detectors = [k \in DetIds |-> NewDetector]
    /\ audio = InitAudio
    /\ mic = InitMic
    /\ sound = InitSound
    /\ calc = NoCalc
    /\ obs = InitObs

\* ------------------------------------------------------- AudioEngine handlers
\* Each handler maps the state before the call to the state after it.

\* the callbacks that wait for the next animation frame, in request order
DetectorLoop(k) == [kind |-> "detector", k |-> k]

AdaptiveLoop == [kind |-> "adaptive", k |-> 0]

FluctuationLoop == [kind |-> "fluctuation", k |-> 0]

\* requestAnimationFrame(cb)
requestAnimationFrame(w, cb) == [w EXCEPT !.a.frames = Append(w.a.frames, cb)]

\* cancelAnimationFrame(id), id being the handle of cb's latest request
cancelAnimationFrame(w, cb) ==
    LET at == {i \in 1..Len(w.a.frames) : w.a.frames[i] = cb}
    IN  IF at = {} THEN w
        ELSE LET last == CHOOSE i \in at : \A j \in at : j <= i
             IN  [w EXCEPT !.a.frames = SubSeq(w.a.frames, 1, last - 1)
                                        \o SubSeq(w.a.frames, last + 1, Len(w.a.frames))]

\* how many requests of cb wait for the next frame
Pending(cb) == Cardinality({i \in 1..Len(audio.frames) : audio.frames[i] = cb})

\* 0.1 s, the attack of the reactive envelope and the adaptive time constant
TenthSecond == StepsPerSecond \div 10

\* 0.5 s, the time constant of the reset to 1.0
HalfSecond == StepsPerSecond \div 2

\* handleAdaptiveUpdate(noiseScore) without the test of isAutoMode
handleAdaptiveUpdateAlways(w, noiseScore) ==
    LET w1 == [w EXCEPT !.e.adaptiveTargetGain =
                            Min(noiseScore * 2, (4 * Unit) \div 10)]
    IN  IF w.e.detector = 0 THEN w1
        ELSE [w1 EXCEPT !.d[w.e.detector].currentNoiseGain =
                            w.e.baseVolume + w.e.adaptiveGain]

\* handleAdaptiveUpdate(noiseScore)
handleAdaptiveUpdate(w, noiseScore) ==
    IF ~w.e.isAutoMode THEN w
    ELSE LET w1 == [w EXCEPT !.e.adaptiveTargetGain =
                                 Min(noiseScore * 2, (4 * Unit) \div 10)]
         IN  IF w.e.detector = 0 THEN w1
             ELSE [w1 EXCEPT !.d[w.e.detector].currentNoiseGain =
                                 w.e.baseVolume + w.e.adaptiveGain]

\* the onNoiseScoreUpdate callback the engine gives its detector
onNoiseScoreUpdate(w, score) ==
    handleAdaptiveUpdate([w EXCEPT !.o.scoreUpdates = Append(w.o.scoreUpdates, score)],
                         score)

\* a boost without the factor 3
BoostMultiplierSingle(intensity, strength) == Unit + Mul(intensity, strength)

\* a multiplier that cuts where the code boosts
BoostMultiplierCut(intensity, strength) == Unit - Mul(intensity, strength) * 3

\* boostMultiplier = 1.0 + intensity * reactiveBoostStrength * 3
BoostMultiplier(intensity, strength) == Unit + Mul(intensity, strength) * 3

\* the four automation calls of handleReactiveImpact after cancelScheduledValues
ScheduleEnvelope(p, now, boostMultiplier, duration) ==
    LET holdTime == (duration * StepsPerSecond) \div 2
        fadeTime == (duration * StepsPerSecond) \div 2
        p1 == SetValueAtTime(p, p.value, now)
        p2 == LinearRampToValueAtTime(p1, boostMultiplier, now + TenthSecond)
        p3 == SetValueAtTime(p2, boostMultiplier, now + TenthSecond + holdTime)
    IN  ExponentialRampToValueAtTime(p3, Unit, now + TenthSecond + holdTime + fadeTime)

\* an envelope scheduled on top of the events of the earlier one
EnvelopeOnTop(p, now, boostMultiplier, duration) ==
    ScheduleEnvelope(p, now, boostMultiplier, duration)

\* the reactive gain's timeline after handleReactiveImpact
ReactiveEnvelope(p, now, boostMultiplier, duration) ==
    ScheduleEnvelope(CancelScheduledValues(p, now), now, boostMultiplier, duration)

\* handleReactiveImpact(intensity)
handleReactiveImpact(w, intensity) ==
    IF ~w.e.isAutoMode \/ ~w.e.hasGraph \/ w.e.ctx = 0 THEN w
    ELSE IF w.e.detector = 0 \/ ~w.d[w.e.detector].reactiveEnabled THEN w
    ELSE LET now == w.a.currentTime
             boostMultiplier == BoostMultiplier(intensity, w.e.reactiveBoostStrength)
         IN  [w EXCEPT
                !.a.reactiveParam = ReactiveEnvelope(w.a.reactiveParam, now,
                                        boostMultiplier, w.e.reactiveBoostDuration),
                !.o.impact = [handled   |-> TRUE,
                              now       |-> now,
                              intensity |-> intensity,
                              strength  |-> w.e.reactiveBoostStrength,
                              duration  |-> w.e.reactiveBoostDuration,
                              before    |-> w.a.reactiveParam]]

\* what detector k's analyser reads: the microphone while its stream is live
\* and its input chain connected, silence otherwise
AnalyserData(w, k) ==
    IF w.m.streams[k] = "live" /\ w.m.connected[k] THEN w.m.frequencyData ELSE Silence

\* what a tick of detector k leaves in the history: det is the detector
\* and fd the spectrum at the start of the tick, the rest what it computed
TickHistory(w, k, det, fd, cooldown, dev, score, fires, intensity) ==
    LET since == w.o.sinceImpact[k]
        loud  == w.m.phase = "during" /\ fd = w.m.frequencyData
        above == det.reactiveEnabled /\ det.sensitivity = Unit
                 /\ dev.maxDeviation > Unit \div 20
        run   == w.o.run
    IN  [w.o EXCEPT
            !.sinceImpact[k] = IF fires THEN 0
                               ELSE IF since = Absent THEN Absent
                               ELSE Min(since + 1, 2 * RunLength),
            !.impacts = IF fires THEN Min(w.o.impacts + 1, 3) ELSE w.o.impacts,
            !.ticksInOp = w.o.ticksInOp + 1,
            !.loudTicks = IF loud THEN Min(w.o.loudTicks + 1, 2) ELSE w.o.loudTicks,
            !.spike = IF loud /\ ~w.o.spike.seen
                      THEN [seen            |-> TRUE,
                            maxDeviation    |-> dev.maxDeviation,
                            reactiveEnabled |-> det.reactiveEnabled,
                            fired           |-> fires,
                            scoreBefore     |-> det.noiseScore,
                            score           |-> score]
                      ELSE w.o.spike,
            !.run = IF ~above THEN NoRun
                    ELSE IF run.len = 0
                    THEN [len     |-> 1,
                          valid   |-> cooldown = 0,
                          firedAt |-> IF fires THEN {0} ELSE {}]
                    ELSE [len     |-> Min(run.len + 1, RunLength + 1),
                          valid   |-> run.valid,
                          firedAt |-> IF fires /\ run.len < RunLength
                                      THEN run.firedAt \cup {run.len}
                                      ELSE run.firedAt],
            !.tick = [det             |-> k,
                      ran             |-> TRUE,
                      fired           |-> fires,
                      intensity       |-> IF fires THEN intensity ELSE 0,
                      bandId          |-> dev.maxDeviationBandId,
                      maxDeviation    |-> dev.maxDeviation,
                      totalDeviation  |-> dev.totalDeviation,
                      cooldown        |-> cooldown,
                      reactiveEnabled |-> det.reactiveEnabled,
                      sensitivity     |-> det.sensitivity,
                      scoreBefore     |-> det.noiseScore,
                      score           |-> score,
                      energy          |-> GetBandEnergy(fd, 20, 20000),
                      noiseGain       |-> det.currentNoiseGain,
                      fd              |-> fd,
                      baselinesBefore |-> det.baselineEnergies,
                      bandIds         |-> det.enabledBandIds,
                      baselines       |-> dev.baselines,
                      gap             |-> IF since = Absent THEN Absent
                                          ELSE since + 1]]

\* the world w with the history of the tick that led to it
ObserveTick(w, k, det, fd, cooldown, dev, score, fires, intensity) ==
    [w EXCEPT !.o = TickHistory(w, k, det, fd, cooldown, dev, score,
                                fires, intensity)]

\* onImpact(intensity, bandId) and the cooldown's restart, when the tick fires
OnImpact(w, k, fires, intensity) ==
    IF fires
    THEN [handleReactiveImpact(w, intensity) EXCEPT
              !.d[k].impactCooldownFrames = MAX_IMPACT_COOLDOWN]
    ELSE w

\* loop() from the noise score on: the score is stored and reported, the
\* impact reported, the next frame requested
ReportTick(w, k, fd, cooldown, dev, score, fires, intensity) ==
    ObserveTick(
        [requestAnimationFrame(
             OnImpact(onNoiseScoreUpdate(
                          [w EXCEPT !.d[k].impactCooldownFrames = cooldown,
                                    !.d[k].baselineEnergies = dev.baselines,
                                    !.d[k].noiseScore = score],
                          score),
                      k, fires, intensity),
             DetectorLoop(k))
            EXCEPT !.d[k].animationFrameId = 1],
        k, w.d[k], fd, cooldown, dev, score, fires, intensity)

\* loop() from the deviations on: the score, the impact condition, the intensity
ScoreTick(w, k, fd, cooldown, dev) ==
    ReportTick(w, k, fd, cooldown, dev,
               NextNoiseScore(w.d[k].noiseScore, dev.totalDeviation),
               ImpactFires(w.d[k].reactiveEnabled, cooldown,
                           dev.maxDeviation, w.d[k].sensitivity),
               ImpactIntensity(dev.maxDeviation))

\* ImpactDetector.loop() of detector k
loop(w, k) ==
    IF ~w.d[k].isRunning THEN w
    ELSE ScoreTick(w, k, AnalyserData(w, k),
                   CooldownAfterDecrement(w.d[k].impactCooldownFrames),
                   Deviations(w.d[k], AnalyserData(w, k)))

\* ImpactDetector.start() of detector k
start(w, k) ==
    IF w.d[k].isRunning THEN w
    ELSE loop([w EXCEPT !.d[k].isRunning = TRUE,
                        !.d[k].baselineEnergies = NoBaselines,
                        !.d[k].noiseScore = 0], k)

\* ImpactDetector.stop() of detector k
stop(w, k) ==
    LET w1 == [w EXCEPT !.d[k].isRunning = FALSE]
    IN  IF w.d[k].animationFrameId = 0 THEN w1
        ELSE [cancelAnimationFrame(w1, DetectorLoop(k)) EXCEPT
                 !.d[k].animationFrameId = 0]

\* this.detector?.start()
startDetector(w) == IF w.e.detector = 0 THEN w ELSE start(w, w.e.detector)

\* this.detector?.stop()
stopDetector(w) == IF w.e.detector = 0 THEN w ELSE stop(w, w.e.detector)

\* startAdaptiveLoop()
startAdaptiveLoop(w) ==
    IF w.e.adaptiveAnimationId # 0 THEN w
    ELSE [requestAnimationFrame(w, AdaptiveLoop) EXCEPT !.e.adaptiveAnimationId = 1]

\* stopAdaptiveLoop()
stopAdaptiveLoop(w) ==
    IF w.e.adaptiveAnimationId = 0 THEN w
    ELSE [cancelAnimationFrame(w, AdaptiveLoop) EXCEPT !.e.adaptiveAnimationId = 0]

\* a multiplier without the dead zone below 1.10
AdaptiveMultiplierRaw(adaptiveGain) == Unit + adaptiveGain * 3

\* multiplier = 1.0 + adaptiveGain * 3, snapped to 1.0 below 1.10
AdaptiveMultiplier(adaptiveGain) ==
    IF Unit + adaptiveGain * 3 < (11 * Unit) \div 10 THEN Unit
    ELSE Unit + adaptiveGain * 3

\* applyAdaptiveGain()
applyAdaptiveGain(w) ==
    IF ~w.e.hasGraph \/ w.e.ctx = 0 THEN w
    ELSE [w EXCEPT
            !.a.adaptiveParam =
                SetTargetAtTime(w.a.adaptiveParam, AdaptiveMultiplier(w.e.adaptiveGain),
                                w.a.currentTime, TenthSecond),
            !.o.applied = [ran        |-> TRUE,
                           multiplier |-> AdaptiveMultiplier(w.e.adaptiveGain),
                           gain       |-> w.e.adaptiveGain]]

\* the follower's fraction per tick, in units of 0.00001, for slider values
\* given in units of one: attackSpeed when rising, decaySpeed when falling
FollowerSpeed(diff, speedValue, decayValue, one) ==
    IF diff > 0 THEN 50 + MulDiv(speedValue, 195, one \div 10)
    ELSE 10 + MulDiv(one - decayValue, 19, one \div 10)

\* x * f for a fraction f in units of 0.00001, the product taken in two
\* parts so that it stays below 2^31
FractionOf(x, f) ==
    MulDiv((x \div 1000) * f * 10 + ((x % 1000) * f) \div 100, 1, 1000)

\* a follower that uses the attack speed in both directions
FollowedGainAttackOnly(gain, target, speedValue, decayValue, one) ==
    IF Abs(target - gain) > one \div 1000
    THEN gain + FractionOf(target - gain, FollowerSpeed(1, speedValue, decayValue, one))
    ELSE gain

\* adaptiveGain after one pass of the loop closure
FollowedGain(gain, target, speedValue, decayValue, one) ==
    IF Abs(target - gain) > one \div 1000
    THEN gain + FractionOf(target - gain,
                           FollowerSpeed(target - gain, speedValue, decayValue, one))
    ELSE gain

\* the loop closure of startAdaptiveLoop()
adaptiveLoop(w) ==
    LET w1 == IF Abs(w.e.adaptiveTargetGain - w.e.adaptiveGain) > Unit \div 1000
              THEN applyAdaptiveGain([w EXCEPT !.e.adaptiveGain =
                       FollowedGain(w.e.adaptiveGain, w.e.adaptiveTargetGain,
                                    w.e.adaptiveSpeedValue, w.e.adaptiveDecayValue, Unit)])
              ELSE w
    IN  IF ~w.e.isAutoMode THEN w
        ELSE [requestAnimationFrame(w1, AdaptiveLoop) EXCEPT !.e.adaptiveAnimationId = 1]

\* the release of the microphone in toggleAutoMode(false)
releaseInput(w) ==
    LET in == w.e.inputScanParams
    IN  IF in.stream = 0 THEN w
        ELSE [w EXCEPT
                !.m.streams[in.stream] = "stopped",
                !.m.connected = [k \in DetIds |->
                                    IF k \in {in.source, in.gain, in.analyser}
                                    THEN FALSE ELSE w.m.connected[k]],
                !.e.inputScanParams =
                    [stream |-> 0, source |-> 0, gain |-> 0, analyser |-> 0]]

\* the reset of the adaptive and reactive gains in toggleAutoMode(false)
resetGains(w) ==
    IF ~w.e.hasGraph \/ w.e.ctx = 0 THEN w
    ELSE [w EXCEPT
            !.a.adaptiveParam = SetTargetAtTime(w.a.adaptiveParam, Unit,
                                                w.a.currentTime, HalfSecond),
            !.a.reactiveParam = SetTargetAtTime(w.a.reactiveParam, Unit,
                                                w.a.currentTime, HalfSecond)]

\* this.detector?.updateNoiseGain(gain)
updateNoiseGain(w, gain) ==
    IF w.e.detector = 0 THEN w
    ELSE [w EXCEPT !.d[w.e.detector].currentNoiseGain = gain]

\* the else branch of toggleAutoMode: loops stopped, gains zeroed, the
\* microphone released, the gain nodes sent back to 1.0
autoModeOff(w) ==
    resetGains(releaseInput(
        [stopAdaptiveLoop(stopDetector(w)) EXCEPT
            !.e.adaptiveGain = 0, !.e.adaptiveTargetGain = 0]))

\* toggleAutoMode(enable); with no stream held, enabling issues a
\* getUserMedia request whose continuation is MicResolve or MicReject
toggleAutoMode(w, enable) ==
    IF ~enable THEN autoModeOff([w EXCEPT !.e.isAutoMode = FALSE])
    ELSE IF w.e.inputScanParams.stream # 0
    THEN startAdaptiveLoop(
             updateNoiseGain(startDetector([w EXCEPT !.e.isAutoMode = TRUE]),
                             w.e.baseVolume))
    ELSE IF w.e.ctx = 0
    THEN startAdaptiveLoop(startDetector([w EXCEPT !.e.isAutoMode = TRUE]))
    ELSE [w EXCEPT !.e.isAutoMode = TRUE,
                   !.m.pending = w.m.pending + 1,
                   !.m.issued = w.m.issued + 1]

\* initInput() after getUserMedia resolved, then the .then() callback of
\* toggleAutoMode: stream k and its nodes and detector are created
micResolved(w) ==
    LET k  == w.m.created + 1
        w1 == [w EXCEPT
                !.m.pending = w.m.pending - 1,
                !.m.created = k,
                !.m.streams[k] = "live",
                !.m.connected[k] = TRUE,
                !.e.inputScanParams =
                    [stream |-> k, source |-> k, gain |-> k, analyser |-> k],
                !.e.detector = k,
                !.d[k] = NewDetector]
    IN  startAdaptiveLoop(startDetector(w1))

\* EQ_BANDS.length
EqBandCount == 5

\* init() up to its await
initBegun(w) ==
    [w EXCEPT !.e.ctx = w.a.contexts + 1,
              !.a.contexts = w.a.contexts + 1,
              !.a.initCalls = w.a.initCalls + 1,
              !.a.initAwaiting = w.a.initAwaiting + 1,
              !.a.ctxState = "running",
              !.a.currentTime = 0]

\* init(): nothing when isInitialized is set, else the context is created
\* and the module load awaited
init(w) == IF w.e.isInitialized THEN w ELSE initBegun(w)

\* init() from its await to its end
initResolved(w) ==
    [w EXCEPT !.a.initAwaiting = w.a.initAwaiting - 1,
              !.a.graphs = w.a.graphs + 1,
              !.a.adaptiveParam = NewParam(Unit),
              !.a.reactiveParam = NewParam(Unit),
              !.a.fluctuationParam = NewParam(Unit),
              !.a.eqFilters = [i \in 1..EqBandCount |-> 0],
              !.a.baseTarget = w.e.baseVolume,
              !.a.noiseTarget = Unit,
              !.a.subBassTarget = 0,
              !.a.noiseMix = [w |-> 0, p |-> 0, b |-> 0, d |-> 0],
              !.e.hasGraph = TRUE,
              !.e.isInitialized = TRUE]

\* suspend()
suspend(w) ==
    IF w.e.ctx = 0 THEN w
    ELSE LET w1 == [w EXCEPT !.e.isExplicitlyStopped = TRUE,
                             !.a.ctxState = "suspended"]
             w2 == stopAdaptiveLoop(stopDetector(w1))
         IN  [w2 EXCEPT !.e.isAutoMode = FALSE]

\* resume()
resume(w) ==
    IF w.e.ctx = 0 THEN w
    ELSE [w EXCEPT !.e.isExplicitlyStopped = FALSE, !.a.ctxState = "running"]

\* fluctuationLoop(), with combined = the sum of the three sines
fluctuationLoop(w, combined) ==
    IF ~w.e.isFluctuationEnabled \/ ~w.e.hasGraph \/ w.e.ctx = 0 THEN w
    ELSE LET targetGain == Unit + Mul(Mul(combined, w.e.fluctuationStrength), Unit \div 2)
         IN  [requestAnimationFrame(w, FluctuationLoop) EXCEPT
                !.a.fluctuationParam = SetTargetAtTime(w.a.fluctuationParam, targetGain,
                                           w.a.currentTime, TenthSecond),
                !.e.fluctuationAnimationId = 1]

\* setFluctuation(enabled) without the call of stopFluctuationLoop
setFluctuationKeepsLoop(w, enabled, combined) ==
    LET w0 == [w EXCEPT !.e.isFluctuationEnabled = enabled]
    IN  IF enabled
        THEN IF w0.e.fluctuationAnimationId # 0 THEN w0
             ELSE fluctuationLoop(w0, combined)
        ELSE IF ~w0.e.hasGraph \/ w0.e.ctx = 0 THEN w0
             ELSE [w0 EXCEPT !.a.fluctuationParam =
                      SetTargetAtTime(w0.a.fluctuationParam, Unit,
                                      w0.a.currentTime, HalfSecond)]

\* setFluctuation(enabled)
setFluctuation(w, enabled, combined) ==
    LET w0 == [w EXCEPT !.e.isFluctuationEnabled = enabled]
    IN  IF enabled
        THEN IF w0.e.fluctuationAnimationId # 0 THEN w0
             ELSE fluctuationLoop(w0, combined)
        ELSE LET w1 == IF w0.e.fluctuationAnimationId = 0 THEN w0
                       ELSE [cancelAnimationFrame(w0, FluctuationLoop) EXCEPT
                                !.e.fluctuationAnimationId = 0]
             IN  IF ~w1.e.hasGraph \/ w1.e.ctx = 0 THEN w1
                 ELSE [w1 EXCEPT !.a.fluctuationParam =
                          SetTargetAtTime(w1.a.fluctuationParam, Unit,
                                          w1.a.currentTime, HalfSecond)]

\* setSensitivity(val)
setSensitivity(w, val) ==
    IF w.e.detector = 0 THEN w ELSE [w EXCEPT !.d[w.e.detector].sensitivity = val]

\* setReactiveBoostStrength(val)
setReactiveBoostStrength(w, val) == [w EXCEPT !.e.reactiveBoostStrength = val]

\* setReactiveBoostDuration(val)
setReactiveBoostDuration(w, val) == [w EXCEPT !.e.reactiveBoostDuration = val]

\* a setter that clamps the band index into range instead of returning
setEQBandClamped(w, bandIndex, gainDb) ==
    IF Len(w.a.eqFilters) = 0 \/ w.e.ctx = 0 THEN w
    ELSE [w EXCEPT !.a.eqFilters[Max(1, Min(Len(w.a.eqFilters), bandIndex + 1))] = gainDb,
                   !.o.gainCall.scheduled = TRUE]

\* setEQBand(bandIndex, gainDb); bandIndex counts from 0
setEQBand(w, bandIndex, gainDb) ==
    IF bandIndex < 0 \/ bandIndex >= Len(w.a.eqFilters) THEN w
    ELSE IF w.e.ctx = 0 THEN w
    ELSE [w EXCEPT !.a.eqFilters[bandIndex + 1] = gainDb,
                   !.o.gainCall.scheduled = TRUE]

\* setNoiseMix(white, pink, brown, dark)
setNoiseMix(w, white, pink, brown, dark) ==
    IF ~w.e.hasGraph THEN w
    ELSE [w EXCEPT !.a.noiseMix = [w |-> white, p |-> pink, b |-> brown, d |-> dark]]

\* setVolume(value)
setVolume(w, value) ==
    IF ~w.e.hasGraph \/ w.e.ctx = 0 THEN [w EXCEPT !.e.baseVolume = value]
    ELSE [w EXCEPT !.e.baseVolume = value,
                   !.a.baseTarget = value,
                   !.o.gainCall.scheduled = TRUE]

\* setNoiseVolume(value)
setNoiseVolume(w, value) ==
    IF ~w.e.hasGraph \/ w.e.ctx = 0 THEN w
    ELSE [w EXCEPT !.a.noiseTarget = value, !.o.gainCall.scheduled = TRUE]

\* setSubBassVolume(value)
setSubBassVolume(w, value) ==
    IF ~w.e.hasGraph \/ w.e.ctx = 0 THEN w
    ELSE [w EXCEPT !.a.subBassTarget = value, !.o.gainCall.scheduled = TRUE]

\* setAdaptiveSpeed(val)
setAdaptiveSpeed(w, val) == [w EXCEPT !.e.adaptiveSpeedValue = val]

\* setAdaptiveDecay(val)
setAdaptiveDecay(w, val) == [w EXCEPT !.e.adaptiveDecayValue = val]

\* 300 ms, the delay of the stop timer, in ticks of the timer clock (100 ms)
STOP_DELAY == 3

\* startSound(id)
startSound(w, id) ==
    IF ~w.s.layers[id].loaded \/ w.e.ctx = 0 THEN w
    ELSE [w EXCEPT !.s.layers[id].hasSource = TRUE,
                   !.s.layers[id].isPlaying = TRUE,
                   !.o.starts[id] = w.o.starts[id] + 1]

\* stopSound(id)
stopSound(w, id) ==
    IF ~w.s.layers[id].loaded \/ ~w.s.layers[id].hasSource THEN w
    ELSE [w EXCEPT !.s.layers[id].hasSource = FALSE,
                   !.s.layers[id].isPlaying = FALSE,
                   !.o.stops[id] = w.o.stops[id] + 1,
                   !.o.stopped = [ran |-> TRUE, id |-> id, at |-> w.s.clock]]

\* a stop timer that stops whatever the volume has become
stopTimerUnchecked(w, timer) == stopSound(w, timer.id)

\* layer.volume as the callback of a stop timer reads it: the callback holds
\* the layer object that setSoundVolume looked up, which is no longer the
\* entry of layers once a later load of the id has replaced it
CapturedVolume(w, timer) ==
    IF timer.replaced THEN timer.volume ELSE w.s.layers[timer.id].volume

\* the callback of the stop timer of setSoundVolume
stopTimer(w, timer) ==
    IF CapturedVolume(w, timer) = 0 THEN stopSound(w, timer.id) ELSE w

\* setSoundVolume after the volume is stored and the fade scheduled
startOrScheduleStop(w, id, volume) ==
    IF volume > 0
    THEN IF ~w.s.layers[id].isPlaying THEN startSound(w, id) ELSE w
    ELSE IF w.s.layers[id].isPlaying
         THEN [w EXCEPT !.s.timers =
                   Append(w.s.timers, [id |-> id, due |-> w.s.clock + STOP_DELAY,
                                          replaced |-> FALSE, volume |-> 0])]
         ELSE w

\* setSoundVolume(id, volume)
setSoundVolume(w, id, volume) ==
    IF ~w.s.layers[id].loaded \/ w.e.ctx = 0 THEN w
    ELSE startOrScheduleStop(
             [w EXCEPT !.s.layers[id].volume = volume,
                       !.s.layers[id].gainTarget = volume,
                       !.o.volumeCalls[id] =
                           Append(w.o.volumeCalls[id],
                                  [volume |-> volume, at |-> w.s.clock])],
             id, volume)

\* loadSound(id, url) up to its first await; promise is the state of the
\* promise the call returns
loadSound(w, id) ==
    IF w.e.ctx = 0
    THEN [w EXCEPT !.s.requested[id] = TRUE, !.s.promise[id] = "fulfilled"]
    ELSE [w EXCEPT !.s.requested[id] = TRUE, !.s.promise[id] = "pending"]

\* the stop timers after layers.set(id, ...) replaced a layer whose volume
\* was volume: the callbacks that hold the replaced layer keep reading it
Replaced(timers, id, volume) ==
    [i \in 1..Len(timers) |->
        IF timers[i].id = id /\ ~timers[i].replaced
        THEN [timers[i] EXCEPT !.replaced = TRUE, !.volume = volume]
        ELSE timers[i]]

\* this.layers.set(id, {...}) at the end of a successful load
layersSet(w, id) ==
    [w EXCEPT !.s.layers[id] = NewLayer,
              !.s.timers = IF w.s.layers[id].loaded
                           THEN Replaced(w.s.timers, id, w.s.layers[id].volume)
                           ELSE w.s.timers]

\* loadSound(id, url) after fetch and decode succeeded
loadResolved(w, id) == layersSet([w EXCEPT !.s.promise[id] = "fulfilled"], id)

\* a second loadSound(id, url), up to its first await
loadSoundAgain(w, id) ==
    IF w.e.ctx = 0 THEN [w EXCEPT !.s.reload[id] = "fulfilled"]
    ELSE [w EXCEPT !.s.reload[id] = "pending"]

\* the second loadSound(id, url) after fetch and decode succeeded
reloadResolved(w, id) == layersSet([w EXCEPT !.s.reload[id] = "fulfilled"], id)

\* a failed load that leaves a layer behind
loadFailedWithLayer(w, id) == loadResolved(w, id)

\* loadSound(id, url) after fetch or decode failed: the catch block logs
\* and the call returns normally
loadFailed(w, id) == [w EXCEPT !.s.promise[id] = "fulfilled"]

\* -------------------------------------------------------------------- actions

\* the state at the start of operation op: the history of the last one cleared
BeginIn(w, op) ==
    [w EXCEPT !.o.op = op, !.o.tick = NoTick, !.o.impact = NoImpact,
              !.o.render = NoRender, !.o.applied = NoApplied, !.o.stopped = NoStop,
              !.o.soundCall = NoSoundCall, !.o.gainCall = NoGainCall,
              !.o.scoreUpdates = <<>>, !.o.ticksInOp = 0]

Begin(op) == BeginIn(World, op)

\* whether the user may make another call in this run
MayCall == obs.calls < MaxCalls

\* the state at the start of the user's call op
CallIn(w, op) == [BeginIn(w, op) EXCEPT !.o.calls = w.o.calls + 1, !.o.lastCall = op]

Call(op) == CallIn(World, op)

\* whether the user may change another setting in this run
MaySet == obs.settings < MaxSettings

\* the state at the start of the user's call op that changes a setting
SettingIn(w, op) ==
    [BeginIn(w, op) EXCEPT !.o.settings = w.o.settings + 1, !.o.lastCall = op]

Setting(op) == SettingIn(World, op)

Sensitivities == {0, Unit \div 2, Unit}

Strengths == {0, (3 * Unit) \div 10, Unit \div 2}

Durations == {1, 10}

Volumes == {0, Unit \div 10, Unit}

DetailedChoices == {<<>>, <<"footsteps">>, <<"high_freq", "low_freq">>}

ToggleBandIds == {"footsteps", "voice_female", "unknown_band"}

Combined == {0 - Unit, 0, Unit}

\* init() up to its await: a new audio context is created
InitBegin ==
    /\ MayCall
    /\ ~engine.isInitialized
    /\ audio.initCalls < MaxInitCalls
    /\ Becomes(initBegun(Call("init")))

\* engine.init() called whatever the engine's state, as a second click does
InitCall ==
    /\ MayCall
    /\ Becomes(init(Call("init")))

\* init() after audioWorklet.addModule resolved: the graph is built
InitResolve ==
    /\ audio.initAwaiting > 0
    /\ Becomes(initResolved(Begin("initResolve")))

\* init() after audioWorklet.addModule rejected: the error is rethrown
InitReject ==
    /\ audio.initAwaiting > 0
    /\ Becomes([Begin("initReject") EXCEPT !.a.initAwaiting = audio.initAwaiting - 1])

ToggleAutoMode ==
    \E enable \in BOOLEAN :
        /\ MayCall
        /\ (enable /\ engine.inputScanParams.stream = 0 /\ engine.ctx # 0)
               => mic.issued < MaxMicRequests
        /\ Becomes(toggleAutoMode(
               Call(IF enable THEN "toggleAutoMode(true)" ELSE "toggleAutoMode(false)"),
               enable))

\* getUserMedia resolves
\* the auto-mode switch in a run of at most limit calls
ToggleWithin(limit) ==
    \E enable \in BOOLEAN :
        /\ obs.calls < limit
        /\ (enable /\ engine.inputScanParams.stream = 0) => mic.issued < MaxMicRequests
        /\ Becomes(toggleAutoMode(
               Call(IF enable THEN "toggleAutoMode(true)" ELSE "toggleAutoMode(false)"),
               enable))

MicResolve ==
    /\ mic.pending > 0
    /\ Becomes(micResolved(Begin("micResolve")))

\* getUserMedia rejects: initInput rethrows, the .then() callback never runs
MicReject ==
    /\ mic.pending > 0
    /\ Becomes([Begin("micReject") EXCEPT !.m.pending = mic.pending - 1])

\* the callbacks cbs[i..] of one animation frame, run in request order
RECURSIVE RunCallbacks(_, _, _, _)
RunCallbacks(w, cbs, i, c) ==
    IF i > Len(cbs) THEN w
    ELSE LET cb == cbs[i]
             w1 == IF cb.kind = "detector" THEN loop(w, cb.k)
                   ELSE IF cb.kind = "adaptive" THEN adaptiveLoop(w)
                   ELSE fluctuationLoop(w, c)
         IN  RunCallbacks(w1, cbs, i + 1, c)

\* One animation frame: every callback requested before it runs once, in
\* request order; what they request waits for the next frame.
Frame(limit, c) ==
    /\ audio.frames # <<>>
    /\ obs.frames < limit
    /\ Becomes(RunCallbacks([Begin("frame") EXCEPT !.a.frames = <<>>,
                                                   !.o.frames = obs.frames + 1],
                            audio.frames, 1, c))

AnimationFrame == \E c \in Combined : Frame(LifecycleFrames, c)

Suspend == MayCall /\ Becomes(suspend(Call("suspend")))

Resume == MayCall /\ Becomes(resume(Call("resume")))

\* the stop button: suspend() then toggleAutoMode(false)
StopButton == MayCall /\ Becomes(toggleAutoMode(suspend(Call("stopButton")), FALSE))

SetSensitivity ==
    \E val \in Sensitivities :
        /\ MaySet
        /\ Becomes(setSensitivity(Setting("setSensitivity"), val))

SetReactiveEnabled ==
    \E enabled \in BOOLEAN :
        /\ MaySet
        /\ engine.detector # 0
        /\ Becomes([Setting("setReactiveEnabled") EXCEPT
                       !.d[engine.detector].reactiveEnabled = enabled])

SetReactiveBoostStrength ==
    \E val \in Strengths :
        MaySet /\ Becomes(setReactiveBoostStrength(Setting("setReactiveBoostStrength"), val))

SetReactiveBoostDuration ==
    \E val \in Durations :
        MaySet /\ Becomes(setReactiveBoostDuration(Setting("setReactiveBoostDuration"), val))

\* the positions of the attack and decay sliders
SliderValues == {0, Unit \div 2, Unit}

SetAdaptiveSpeed ==
    \E val \in SliderValues :
        MaySet /\ Becomes(setAdaptiveSpeed(Setting("setAdaptiveSpeed"), val))

SetAdaptiveDecay ==
    \E val \in SliderValues :
        MaySet /\ Becomes(setAdaptiveDecay(Setting("setAdaptiveDecay"), val))

\* the volumes of a sound slider
LayerVolumes == {0, (3 * Unit) \div 10, (4 * Unit) \div 10}

\* a sound slider of one of the layers ids moves, at most limit times in a run
SoundSliderMoves(ids, limit) ==
    \E id \in ids, volume \in LayerVolumes :
        /\ obs.soundCalls < limit
        /\ Becomes(setSoundVolume([Begin("setSoundVolume") EXCEPT
                                       !.o.soundCalls = obs.soundCalls + 1,
                                       !.o.soundCall = [ran |-> TRUE, id |-> id,
                                                        volume |-> volume,
                                                        before |-> sound,
                                                        starts |-> obs.starts,
                                                        stops |-> obs.stops]],
                                   id, volume))

\* every call of setSoundVolume so far was on layer id
AllCallsOn(id) == \A other \in LayerIds \ {id} : obs.volumeCalls[other] = <<>>

\* initAndLoadSounds() loads every asset once
LoadSound ==
    \E id \in LayerIds :
        /\ ~sound.requested[id]
        /\ Becomes(loadSound(Begin("loadSound"), id))

LoadResolve ==
    \E id \in LayerIds :
        /\ sound.promise[id] = "pending"
        /\ Becomes(loadResolved(Begin("loadResolve"), id))

LoadReject ==
    \E id \in LayerIds :
        /\ sound.promise[id] = "pending"
        /\ Becomes(loadFailed([Begin("loadReject") EXCEPT
                                   !.o.soundCall = [ran |-> TRUE, id |-> id,
                                                    volume |-> 0, before |-> sound,
                                                    starts |-> obs.starts,
                                                    stops |-> obs.stops]],
                               id))

\* the oldest stop timer fires, 300 ms after it was set
StopTimerFires ==
    /\ sound.timers # <<>>
    /\ Head(sound.timers).due <= sound.clock
    /\ Becomes(stopTimer([Begin("stopTimer") EXCEPT !.s.timers = Tail(sound.timers)],
                         Head(sound.timers)))

\* 100 ms pass with no timer due
ClockTickTo(limit) ==
    /\ sound.clock < limit
    /\ IF sound.timers = <<>> THEN TRUE ELSE Head(sound.timers).due > sound.clock
    /\ Becomes([Begin("clockTick") EXCEPT !.s.clock = sound.clock + 1])

SetVolume ==
    \E value \in Volumes :
        MaySet /\ Becomes(setVolume(Setting("setVolume"), value))

\* the state at the start of a mixer call op with argument value: the
\* engine and the audio graph before it are kept for comparison
MixerCall(op, index, value) ==
    [Begin(op) EXCEPT !.o.settings = obs.settings + 1,
                      !.o.gainCall = [ran |-> TRUE, index |-> index, value |-> value,
                                      scheduled |-> FALSE,
                                      engine |-> engine, audio |-> audio]]

MayMix == obs.settings < MixerCalls

\* the band indices and gains setEQBand is called with
EqIndices == (0 - 1)..EqBandCount
EqGains == {0 - 6, 0, 6}

SetEQBand ==
    \E bandIndex \in EqIndices, gainDb \in EqGains :
        MayMix /\ Becomes(setEQBand(MixerCall("setEQBand", bandIndex, gainDb),
                                    bandIndex, gainDb))

\* the values the gain setters are called with
GainValues == {0 - Unit \div 2, 0, Unit \div 2, Unit}

SetVolumeTo ==
    \E value \in GainValues :
        MayMix /\ Becomes(setVolume(MixerCall("setVolume", 0, value), value))

SetNoiseVolumeTo ==
    \E value \in GainValues :
        MayMix /\ Becomes(setNoiseVolume(MixerCall("setNoiseVolume", 0, value), value))

SetSubBassVolumeTo ==
    \E value \in GainValues :
        MayMix /\ Becomes(setSubBassVolume(MixerCall("setSubBassVolume", 0, value), value))

SetReactiveBoostStrengthTo ==
    \E value \in GainValues :
        MayMix /\ Becomes(setReactiveBoostStrength(
                              MixerCall("setReactiveBoostStrength", 0, value), value))

SetDetectionSimpleMode ==
    \E modeId \in DOMAIN SIMPLE_MODES :
        /\ MaySet
        /\ engine.detector # 0
        /\ Becomes([Setting("setSimpleMode") EXCEPT
                       !.d[engine.detector] = setSimpleMode(detectors[engine.detector], modeId)])

SetDetectionDetailedMode ==
    \E bandIds \in DetailedChoices :
        /\ MaySet
        /\ engine.detector # 0
        /\ Becomes([Setting("setDetailedMode") EXCEPT
                       !.d[engine.detector] = setDetailedMode(detectors[engine.detector], bandIds)])

ToggleDetectionBand ==
    \E bandId \in ToggleBandIds, enabled \in BOOLEAN :
        /\ MaySet
        /\ engine.detector # 0
        /\ Becomes([Setting("toggleBand") EXCEPT
                       !.d[engine.detector] =
                           toggleBand(detectors[engine.detector], bandId, enabled)])

SetFluctuation ==
    \E enabled \in BOOLEAN, c \in Combined :
        MaySet /\ Becomes(setFluctuation(Setting("setFluctuation"), enabled, c))

SetFluctuationStrength ==
    \E strength \in {0, Unit} :
        MaySet /\ Becomes([Setting("setFluctuationStrength") EXCEPT !.e.fluctuationStrength = strength])

\* one step of the audio clock: the render thread computes the gain params
AdvanceTimeTo(limit) ==
    /\ audio.ctxState = "running"
    /\ audio.currentTime < limit
    /\ LET t == audio.currentTime
       IN  Becomes([Begin("render") EXCEPT
               !.o.render = [ran      |-> TRUE,
                             adaptive |-> audio.adaptiveParam.value,
                             reactive |-> audio.reactiveParam.value],
               !.a.currentTime = t + 1,
               !.a.adaptiveParam = RenderParam(audio.adaptiveParam, t, t + 1),
               !.a.reactiveParam = RenderParam(audio.reactiveParam, t, t + 1),
               !.a.fluctuationParam = RenderParam(audio.fluctuationParam, t, t + 1)])

AdvanceTime == AdvanceTimeTo(MaxTime)

\* the sound reaching the microphone changes
\* The sound reaching the microphone: silence, then one sound with the
\* spectrum fd, then silence again.
SoundStarts(fd) ==
    /\ mic.phase = "before"
    /\ fd # Silence
    /\ Becomes([Begin("soundStarts") EXCEPT !.m.frequencyData = fd,
                                            !.m.phase = "during"])

SoundEnds ==
    /\ mic.phase = "during"
    /\ Becomes([Begin("soundEnds") EXCEPT !.m.frequencyData = Silence,
                                          !.m.phase = "after"])

\* a sound with the same level in every bin (a broadband sound)
BroadbandSoundStarts == \E fd \in FlatSpectra : SoundStarts(fd)

\* a sound with any of the spectra
ShapedSoundStarts == \E fd \in Spectra : SoundStarts(fd)

Next ==
    \/ InitBegin
    \/ InitResolve
    \/ InitReject
    \/ ToggleAutoMode
    \/ MicResolve
    \/ MicReject
    \/ AnimationFrame
    \/ Suspend
    \/ Resume
    \/ StopButton
    \/ SetFluctuation
    \/ SetFluctuationStrength

Spec == Init /\ [][Next]_vars

\* --------------------------------------------------- the detector at work
\* The engine after init(), toggleAutoMode(true) and the microphone's grant.

InitWorld ==
    [e |-> InitEngine, d |-> [k \in DetIds |-> NewDetector],
     a |-> InitAudio, m |-> InitMic, s |-> InitSound, c |-> NoCalc, o |-> InitObs]

InitializedWorld ==
    initResolved(BeginIn(initBegun(CallIn(InitWorld, "init")), "initResolve"))

RunningWorld ==
    micResolved(BeginIn(toggleAutoMode(CallIn(InitializedWorld, "toggleAutoMode(true)"),
                                       TRUE), "micResolve"))

\* the state is the world w
Is(w) ==
    /\ engine = w.e
    /\ detectors = w.d
    /\ audio = w.a
    /\ mic = w.m
    /\ sound = w.s
    /\ calc = w.c
    /\ obs = w.o

InitRunning == Is(RunningWorld)

DetectorFrame == Frame(MaxFrames, 0)

\* The detector's ticks on a sound, between changes of its settings.
NextDetector ==
    \/ DetectorFrame
    \/ BroadbandSoundStarts
    \/ SoundEnds
    \/ SetSensitivity
    \/ SetReactiveEnabled

SpecDetector == InitRunning /\ [][NextDetector]_vars

\* The detector's ticks on a loud sound, between calls of any of its setters.
LoudSoundStarts == SoundStarts([lo |-> 255, hi |-> 255])

NextSetters ==
    \/ DetectorFrame
    \/ LoudSoundStarts
    \/ SetSensitivity
    \/ SetReactiveEnabled
    \/ SetDetectionSimpleMode
    \/ SetDetectionDetailedMode
    \/ ToggleDetectionBand

SpecSetters == InitRunning /\ [][NextSetters]_vars

\* The detector's bands changed between ticks.
ModeFrame == Frame(ModeFrames, 0)

NextModes ==
    \/ ModeFrame
    \/ ShapedSoundStarts
    \/ SoundEnds
    \/ SetDetectionSimpleMode
    \/ SetDetectionDetailedMode
    \/ ToggleDetectionBand

SpecModes == InitRunning /\ [][NextModes]_vars

\* A long run of ticks at one sensitivity.
InitCooldown ==
    \E val \in Sensitivities :
        Is(setSensitivity(SettingIn(RunningWorld, "setSensitivity"), val))

LongFrame == Frame(LongRun, 0)

NextCooldown ==
    \/ LongFrame
    \/ BroadbandSoundStarts
    \/ SoundEnds

SpecCooldown == InitCooldown /\ [][NextCooldown]_vars

\* Impacts that follow one another on the audio clock.
ShortRender == AdvanceTimeTo(RetriggerTime)

NextRetrigger ==
    \/ DetectorFrame
    \/ BroadbandSoundStarts
    \/ ShortRender

SpecRetrigger == InitRunning /\ [][NextRetrigger]_vars

\* The reactive envelope on the audio clock.
EnvelopeFrame == Frame(EnvelopeFrames, 0)

EnvelopeWorlds ==
    {setReactiveBoostStrength(SettingIn(RunningWorld, "setReactiveBoostStrength"), val) :
        val \in Strengths}
    \cup
    {setReactiveBoostDuration(SettingIn(RunningWorld, "setReactiveBoostDuration"), val) :
        val \in Durations}

InitEnvelope ==
    \E w \in EnvelopeWorlds : Is(w)

NextEnvelope ==
    \/ EnvelopeFrame
    \/ BroadbandSoundStarts
    \/ AdvanceTime
    \/ ToggleAutoMode

SpecEnvelope == InitEnvelope /\ [][NextEnvelope]_vars

\* The adaptive follower on a sound, between moves of its sliders.
AdaptiveFrame == Frame(AdaptiveFrames, 0)

NextAdaptive ==
    \/ AdaptiveFrame
    \/ BroadbandSoundStarts
    \/ SoundEnds
    \/ SetAdaptiveSpeed
    \/ SetAdaptiveDecay

SpecAdaptive == InitRunning /\ [][NextAdaptive]_vars

\* init() called again and again, while the engine is used.
NextInit ==
    \/ InitCall
    \/ InitResolve
    \/ InitReject
    \/ Suspend
    \/ Resume
    \/ SetFluctuation
    \/ AnimationFrame

SpecInit == Init /\ [][NextInit]_vars

\* The equalizer and the gain setters, before and after init().
NextMixer ==
    \/ InitBegin
    \/ InitResolve
    \/ SetEQBand
    \/ SetVolumeTo
    \/ SetNoiseVolumeTo
    \/ SetSubBassVolumeTo
    \/ SetReactiveBoostStrengthTo

SpecMixer == Init /\ [][NextMixer]_vars

\* updateBaseline on its own: one band's baseline follows an energy that
\* has stepped from 0.1 to 0.5, another's an energy that has dropped from 0.5
\* to 0.1, tick by tick, in units of 1e-6.
FineUnit == Unit * 100

LowEnergy == FineUnit \div 10

HighEnergy == FineUnit \div 2

\* the baseline of band "all" after updateBaseline("all", energy)
TrackedBaseline(baseline, noiseGain, energy) ==
    UpdateBaseline([NoBaselines EXCEPT !["all"] = baseline], noiseGain, "all", energy)["all"]

\* within 1% of the target
WithinOnePercent(baseline, target) == Abs(baseline - target) * 100 <= target

\* the tick at which a baseline came within 1% of its target
ReachedAt(at, ticks, baseline, target) ==
    IF at = Absent /\ WithinOnePercent(baseline, target) THEN ticks ELSE at

\* the track after a tick that left the baselines at rise and fall
TrackAfter(c, rise, fall) ==
    [c EXCEPT !.ticks = c.ticks + 1,
              !.prevRise = c.rise,
              !.rise = rise,
              !.fall = fall,
              !.riseAt = ReachedAt(c.riseAt, c.ticks + 1, rise, HighEnergy),
              !.fallAt = ReachedAt(c.fallAt, c.ticks + 1, fall, LowEnergy)]

\* the masking-noise gains the detector holds
TrackNoiseGains == {0, FineUnit \div 10, FineUnit \div 5}

InitTrack ==
    \E noiseGain \in TrackNoiseGains :
        Is([InitWorld EXCEPT !.c = [kind |-> "baseline", noiseGain |-> noiseGain,
                                    ticks |-> 0, prevRise |-> LowEnergy,
                                    rise |-> LowEnergy, fall |-> HighEnergy,
                                    riseAt |-> Absent, fallAt |-> Absent]])

BaselineTick ==
    /\ calc.kind = "baseline"
    /\ calc.ticks < BaselineTicks
    /\ Becomes([Begin("updateBaseline") EXCEPT
                   !.c = TrackAfter(calc,
                             TrackedBaseline(calc.rise, calc.noiseGain, HighEnergy),
                             TrackedBaseline(calc.fall, calc.noiseGain, LowEnergy))])

NextTrack == BaselineTick

SpecTrack == InitTrack /\ [][NextTrack]_vars

\* The soundscape layers: loads, volume changes and stop timers.
InitInitialized == Is(InitializedWorld)

SetSoundVolume == SoundSliderMoves(LayerIds, LoadCalls)

LoadClockTick == ClockTickTo(LoadClock)

NextSound ==
    \/ LoadSound
    \/ LoadResolve
    \/ LoadReject
    \/ SetSoundVolume
    \/ StopTimerFires
    \/ LoadClockTick

SpecSound == InitInitialized /\ [][NextSound]_vars

\* One sound slider moved back and forth, every layer loaded.
LoadedWorld ==
    [InitializedWorld EXCEPT
        !.s.layers = [id \in LayerIds |-> NewLayer],
        !.s.requested = [id \in LayerIds |-> TRUE],
        !.s.promise = [id \in LayerIds |-> "fulfilled"]]

InitLoaded == Is(LoadedWorld)

OneSliderMoves == \E id \in LayerIds : SoundSliderMoves({id}, MaxSoundCalls) /\ AllCallsOn(id)

ClockTick == ClockTickTo(MaxClock)

NextDebounce ==
    \/ OneSliderMoves
    \/ StopTimerFires
    \/ ClockTick

SpecDebounce == InitLoaded /\ [][NextDebounce]_vars

\* --------------------------------------------------------------- properties

\* the microphone streams whose tracks have not been stopped
LiveStreams == {k \in DetIds : mic.streams[k] = "live"}

\* ------------------------------------------------------------------------
\* The fluctuation switch: the engine is initialised, the switch and the
\* strength slider are moved several times, frames run and time passes.
FluctuationCalls == 3
FluctuationFrames == 3
FluctuationClock == 4

FluctuationSwitch ==
    \E enabled \in BOOLEAN, c \in Combined :
        /\ obs.settings < FluctuationCalls
        /\ Becomes(setFluctuation(Setting("setFluctuation"), enabled, c))

FluctuationStrengthSlider ==
    \E strength \in {0, Unit} :
        /\ obs.settings < FluctuationCalls
        /\ strength # engine.fluctuationStrength
        /\ Becomes([Setting("setFluctuationStrength") EXCEPT !.e.fluctuationStrength = strength])

FluctuationFrame == \E c \in Combined : Frame(FluctuationFrames, c)

FluctuationTime == AdvanceTimeTo(FluctuationClock)

NextFluctuation ==
    \/ InitBegin
    \/ InitResolve
    \/ FluctuationSwitch
    \/ FluctuationStrengthSlider
    \/ FluctuationFrame
    \/ FluctuationTime

SpecFluctuation == Init /\ [][NextFluctuation]_vars

\* ------------------------------------------------------------------------
\* NoiseProcessor: the AudioWorklet that generates the masking noise.
\* Samples, gains and filter states are fixed-point numbers (Unit = 1.0);
\* a rumble phase is counted in steps of 2*pi / sampleRate, so that a phase
\* increment is the oscillator's frequency.

PhaseTurn == SampleRate

DefaultRumbleFreq == 55

DefaultRumbleSpeed == 1

\* samples of one render block (128 in a browser)
BlockLen == 1

\* number of channels of the worklet's output
ChannelCounts == {1, 2}

\* values of Math.random() * 2 - 1
WhiteValues == {0 - Unit, Unit}

NewNoiseProcessor ==
    [b0 |-> 0, b1 |-> 0, b2 |-> 0, b3 |-> 0, b4 |-> 0, b5 |-> 0, b6 |-> 0,
     lastBrown |-> 0, lastDark |-> 0,
     rumblePhase1 |-> 0, rumblePhase2 |-> 0, rumblePhase3 |-> 0, rumbleModPhase |-> 0]

\* x * c for a coefficient c given in units of 0.00001
Times(x, c) == MulDiv(x, c \div 1000, 100) + MulDiv(x, c % 1000, 100 * 1000)

\* Math.sin of a phase in 0..PhaseTurn (Bhaskara's rational approximation)
SinHalf(p) ==
    LET h == PhaseTurn \div 2
        q == (p * (h - p)) \div h
    IN  (16 * q * Unit) \div (5 * h - 4 * q)

Sin(p) == IF p <= PhaseTurn \div 2 THEN SinHalf(p) ELSE 0 - SinHalf(p - PhaseTurn \div 2)

\* phase += inc; if (phase > 2 * Math.PI) phase -= 2 * Math.PI
AdvancePhase(phase, inc) == IF phase + inc > PhaseTurn THEN phase + inc - PhaseTurn ELSE phase + inc

\* the pink-noise filter states after one sample
PinkStates(st, white) ==
    [st EXCEPT !.b0 = Times(st.b0, 99886) + Times(white, 5552),
               !.b1 = Times(st.b1, 99332) + Times(white, 7508),
               !.b2 = Times(st.b2, 96900) + Times(white, 15385),
               !.b3 = Times(st.b3, 86650) + Times(white, 31049),
               !.b4 = Times(st.b4, 55000) + Times(white, 53295),
               !.b5 = 0 - Times(st.b5, 76160) - Times(white, 1690),
               !.b6 = Times(white, 11593)]

\* pink = b0 + ... + b5 (updated) + b6 (of the previous sample) + white * 0.5362
PinkOf(st, b6, white) ==
    st.b0 + st.b1 + st.b2 + st.b3 + st.b4 + st.b5 + b6 + Times(white, 53620)

\* the brown and dark states after one sample (updated whatever the gains)
BrownDarkStates(st, white) ==
    [st EXCEPT !.lastBrown = MulDiv(st.lastBrown * 100 + 2 * white, 1, 102),
               !.lastDark  = MulDiv(st.lastDark * 1000 + 5 * white, 1, 1005)]

\* the rumble phases after one sample
RumbleStates(st, rFreq, rSpeed) ==
    [st EXCEPT !.rumblePhase1 = AdvancePhase(st.rumblePhase1, rFreq),
               !.rumblePhase2 = AdvancePhase(st.rumblePhase2, (rFreq * 113) \div 100),
               !.rumblePhase3 = AdvancePhase(st.rumblePhase3, (rFreq * 131) \div 100),
               !.rumbleModPhase = AdvancePhase(st.rumbleModPhase, rSpeed)]

\* the three oscillators mixed, amplitude-modulated
RumbleOf(st) ==
    Mul((Sin(st.rumblePhase1) * 5 + Sin(st.rumblePhase2) * 3 + Sin(st.rumblePhase3) * 2) \div 10,
        Unit + (Sin(st.rumbleModPhase) * 3) \div 10)

\* mixedOutput of one sample, from the states after the sample
MixedOutput(g, white, pink, st, hasRumble) ==
    (IF g.w > 0 THEN Mul(white, g.w) ELSE 0)
    + (IF g.p > 0 THEN Mul((pink * 11) \div 100, g.p) ELSE 0)
    + (IF g.b > 0 THEN Mul((st.lastBrown * 35) \div 10, g.b) ELSE 0)
    + (IF g.d > 0 THEN Mul(st.lastDark * 4, g.d) ELSE 0)
    + (IF hasRumble /\ g.r > 0 THEN MulDiv(Mul(RumbleOf(st), g.r), 8, 10) ELSE 0)

\* the generator states after one sample
SampleStates(st, g, white, hasRumble) ==
    LET s1 == IF g.p > 0 THEN PinkStates(st, white) ELSE st
        s2 == BrownDarkStates(s1, white)
    IN  IF hasRumble /\ g.r > 0 THEN RumbleStates(s2, g.rFreq, g.rSpeed) ELSE s2

\* one pass of the per-sample loop: channel[i] = mixedOutput * mGain
SampleOut(before, after, g, white, hasRumble) ==
    Mul(MixedOutput(g, white,
                    IF g.p > 0 THEN PinkOf(after, before.b6, white) ELSE 0,
                    after, hasRumble),
        g.m)

\* the per-sample loop over one channel, from sample i on
RECURSIVE ChannelLoop(_, _, _, _, _, _)
ChannelLoop(st, g, whites, i, out, hasRumble) ==
    IF i > Len(whites) THEN [st |-> st, out |-> out]
    ELSE LET after == SampleStates(st, g, whites[i], hasRumble)
         IN  ChannelLoop(after, g, whites, i + 1,
                         Append(out, SampleOut(st, after, g, whites[i], hasRumble)),
                         hasRumble)

\* the loop over the channels, from channel c on
RECURSIVE ChannelsLoop(_, _, _, _, _, _)
ChannelsLoop(st, g, whites, c, outs, hasRumble) ==
    IF c > Len(whites)
    THEN [st |-> st, out |-> outs, draws |-> Len(whites) * BlockLen]
    ELSE LET r == ChannelLoop(st, g, whites[c], 1, <<>>, hasRumble)
         IN  ChannelsLoop(r.st, g, whites, c + 1, Append(outs, r.out), hasRumble)

\* the block with the all-zero short-circuit left out
ProcessAlways(st, g, whites, hasRumble) == ChannelsLoop(st, g, whites, 1, <<>>, hasRumble)

AllGainsZero(g, hasRumble) ==
    g.w = 0 /\ g.p = 0 /\ g.b = 0 /\ g.d = 0 /\ (hasRumble => g.r = 0)

\* process(inputs, outputs, parameters) for one render block: whites[c][i]
\* is the random sample drawn for channel c at position i
Process(st, g, whites, hasRumble) ==
    IF AllGainsZero(g, hasRumble)
    THEN [st |-> st, out |-> [c \in 1..Len(whites) |-> [i \in 1..BlockLen |-> 0]], draws |-> 0]
    ELSE ChannelsLoop(st, g, whites, 1, <<>>, hasRumble)

NoiseGains(w, p, b, d, r, m) ==
    [w |-> w, p |-> p, b |-> b, d |-> d, r |-> r, m |-> m,
     rFreq |-> DefaultRumbleFreq, rSpeed |-> DefaultRumbleSpeed]

Silent == NoiseGains(0, 0, 0, 0, 0, Unit)

AllMax == NoiseGains(Unit, Unit, Unit, Unit, Unit, Unit)

RumbleOnly == NoiseGains(0, 0, 0, 0, Unit, Unit \div 2)

NoiseGainChoices == {Silent, AllMax, RumbleOnly}

\* render blocks of one run
NoiseBlocks == 2

\* render blocks of a run at full gain
RunBlocks == 7

NewNoiseRun(hasRumble) ==
    [kind |-> "noise", hasRumble |-> hasRumble,
     st |-> NewNoiseProcessor, before |-> NewNoiseProcessor,
     g |-> Silent, out |-> <<>>, draws |-> 0, blocks |-> 0]

NoiseAfter(c, g, r) ==
    [c EXCEPT !.before = c.st, !.st = r.st, !.g = g,
              !.out = r.out, !.draws = r.draws, !.blocks = c.blocks + 1]

\* the audio thread renders one block
ProcessBlock(limit, choices, counts) ==
    \E g \in choices, n \in counts :
        \E whites \in [1..n -> [1..BlockLen -> WhiteValues]] :
            /\ calc.kind = "noise"
            /\ calc.blocks < limit
            /\ Becomes([Begin("process") EXCEPT
                           !.c = NoiseAfter(calc, g,
                                     Process(calc.st, g, whites, calc.hasRumble))])

InitNoise == \E hasRumble \in BOOLEAN : Is([InitWorld EXCEPT !.c = NewNoiseRun(hasRumble)])

RenderBlock == ProcessBlock(NoiseBlocks, NoiseGainChoices, ChannelCounts)

NextNoise == RenderBlock

SpecNoise == InitNoise /\ [][NextNoise]_vars

InitNoiseRun == Is([InitWorld EXCEPT !.c = NewNoiseRun(FALSE)])

RunBlock == ProcessBlock(RunBlocks, {AllMax}, {1})

NextNoiseRun == RunBlock

SpecNoiseRun == InitNoiseRun /\ [][NextNoiseRun]_vars

\* ------------------------------------------------------------------------
\* AutoTuner: the wizard computes masking settings from the simulated
\* noise's category and three sliders, and saving applies them.

Categories == {"footsteps", "voices", "traffic", "tinnitus"}

\* slider positions, on both sides of the thresholds the tuner tests
TunerValues == {0, 50, 60, 61, 80, 81, 100}

\* the wizard cannot recompute more often than this
TunerCalls == 2

\* a slider value with the division by 100 left out
NotNormalized(v) == v * Unit

\* pitch / 100
Normalized(v) == (v * Unit) \div 100

\* x * (tenths / 10)
Scaled(x, tenths) == (x * tenths) \div 10

\* n / 10
Tenths(n) == (n * Unit) \div 10

\* let eq = [0, 0, 0, 0, 0, 0, 0, 0, 0, 0]; eq[k] of the code is eq[k + 1] here
BaseEq == [i \in 1..10 |-> 0]

TunerResult(w, p, b, d, rumble, eq) ==
    [mix |-> [w |-> w, p |-> p, b |-> b, d |-> d,
              r |-> rumble.vol, rf |-> rumble.freq, rs |-> rumble.speed, s |-> 0],
     eq  |-> eq]

Rumble(vol, freq, speed) == [vol |-> vol, freq |-> freq, speed |-> speed]

Footsteps(p, s, r) ==
    TunerResult(0,
                IF s > Tenths(6) THEN s - Tenths(6) ELSE 0,
                Tenths(6) + Scaled(r, 4),
                Tenths(2) + Scaled(Unit - p, 3),
                Rumble(Tenths(5) + Scaled(r, 5), 40 * Unit + p * 40, Tenths(5) + s * 2),
                [BaseEq EXCEPT ![1] = 5 * Unit + r * 5,
                               ![2] = 3 * Unit + r * 3,
                               ![6] = IF s > Tenths(6) THEN 2 * Unit ELSE 0])

Voices(p, s, r) ==
    TunerResult(IF s > Tenths(8) THEN Scaled(s - Tenths(8), 5) ELSE 0,
                Tenths(5) + Scaled(s, 3),
                Tenths(3) + Scaled(Unit - p, 2),
                0,
                Rumble(Tenths(2), 80 * Unit, Tenths(2)),
                [BaseEq EXCEPT ![3] = 2 * Unit,
                               ![4] = 4 * Unit - p * 2,
                               ![5] = 4 * Unit + s * 2,
                               ![6] = 2 * Unit + s * 4])

Traffic(p, s, r) ==
    TunerResult(0,
                0,
                Tenths(4) + Scaled(p, 3),
                Tenths(6) + Scaled(Unit - s, 4),
                Rumble(Tenths(4), 50 * Unit + p * 50, Tenths(1)),
                [BaseEq EXCEPT ![1] = 4 * Unit, ![2] = 3 * Unit, ![10] = 0 - 5 * Unit])

Tinnitus(p, s, r) ==
    TunerResult(Tenths(3) + Scaled(p, 7),
                Tenths(4) + Scaled(Unit - p, 6),
                0,
                0,
                Rumble(0, 55 * Unit, Unit),
                [BaseEq EXCEPT ![7] = 2 * Unit, ![8] = 2 * Unit, ![9] = 2 * Unit])

TunedFor(targetType, p, s, r) ==
    CASE targetType = "footsteps" -> Footsteps(p, s, r)
      [] targetType = "voices"    -> Voices(p, s, r)
      [] targetType = "traffic"   -> Traffic(p, s, r)
      [] targetType = "tinnitus"  -> Tinnitus(p, s, r)
      [] OTHER -> TunerResult(0, 0, 0, 0, Rumble(0, 55 * Unit, Unit), BaseEq)

\* AutoTuner.calculateSettings(targetType, pitch, sharpness, resonance)
calculateSettings(targetType, pitch, sharpness, resonance) ==
    TunedFor(targetType, Normalized(pitch), Normalized(sharpness), Normalized(resonance))

NoResult == [mix |-> <<>>, eq |-> <<>>]

\* settings.eq.forEach((val, i) => engine.setEQBand(i, val)), from index i on
RECURSIVE ApplyEq(_, _, _)
ApplyEq(w, eq, i) ==
    IF i >= Len(eq) THEN w ELSE ApplyEq(setEQBand(w, i, eq[i + 1]), eq, i + 1)

\* the wizard's onComplete: the mix, the sub-bass volume and the EQ are sent
\* to the engine (the rumble and sub-bass-frequency setters it also calls
\* are not part of this engine and touch neither the mix nor the EQ)
onComplete(w, settings) ==
    ApplyEq(setSubBassVolume(setNoiseMix(w, settings.mix.w, settings.mix.p,
                                         settings.mix.b, settings.mix.d),
                             settings.mix.s),
            settings.eq, 0)

InitTuner ==
    \E targetType \in Categories, pitch, sharpness, resonance \in TunerValues :
        Is([InitializedWorld EXCEPT
               !.c = [kind |-> "tuner", targetType |-> targetType, pitch |-> pitch,
                      sharpness |-> sharpness, resonance |-> resonance,
                      result |-> NoResult, previous |-> NoResult,
                      calls |-> 0, saved |-> FALSE]])

\* generateCountermeasure(): the result is stored for saving
GenerateCountermeasure ==
    /\ calc.kind = "tuner"
    /\ calc.calls < TunerCalls
    /\ ~calc.saved
    /\ Becomes([Begin("generateCountermeasure") EXCEPT
                   !.c.previous = calc.result,
                   !.c.calls = calc.calls + 1,
                   !.c.result = calculateSettings(calc.targetType, calc.pitch,
                                                  calc.sharpness, calc.resonance)])

\* the save button: onComplete(name, currentSettings)
SaveTuned ==
    /\ calc.kind = "tuner"
    /\ calc.result # NoResult
    /\ ~calc.saved
    /\ Becomes([onComplete(Begin("onComplete"), calc.result) EXCEPT !.c.saved = TRUE])

NextTuner ==
    \/ GenerateCountermeasure
    \/ SaveTuned

SpecTuner == InitTuner /\ [][NextTuner]_vars

\* ------------------------------------------------------------------------
\* NoiseSimulator: the wizard's preview of the noise to be masked.  Time is
\* counted in ticks of 0.4 s; a source node is live from start() until it
\* is stopped or its scheduled stop time has passed.

\* milliseconds per tick
SimTick == 4 * 100

\* window.setInterval(..., 1200)
FootstepInterval == 1200 \div SimTick

\* osc.stop(t + 0.4) and noise.stop(t + 0.1), in ticks, rounded up
ThudTicks == (400 + SimTick - 1) \div SimTick
ClickTicks == (100 + SimTick - 1) \div SimTick

\* calls of startSimulation, updateParams and stop in one run
SimCalls == 3

\* ticks of one run
SimClock == 4

Source(patch, kind, until) == [patch |-> patch, kind |-> kind, until |-> until]

NewSimulator ==
    [kind |-> "simulator",
     osc |-> FALSE, noiseNode |-> FALSE, filter |-> FALSE, lfo |-> FALSE, lfoGain |-> FALSE,
     isPlaying |-> FALSE, currentType |-> "", timer |-> FALSE,
     currentParams |-> [p |-> 50, s |-> 50, r |-> 50],
     masterGain |-> 0,
     patch |-> 0,        \* number of patches built so far
     live |-> {},        \* the source nodes started and not yet ended
     intervals |-> {},   \* the times at which a live interval timer fires next
     now |-> 0, calls |-> 0]

\* the sources this.osc, this.noiseNode and this.lfo refer to
Tracked(c) ==
    {s \in c.live : \/ s.until = Absent /\ s.kind = "osc" /\ c.osc
                    \/ s.until = Absent /\ s.kind = "noise" /\ c.noiseNode
                    \/ s.until = Absent /\ s.kind = "lfo" /\ c.lfo}

\* stop()
stopSimulation(c) ==
    [c EXCEPT !.intervals = IF c.timer THEN {} ELSE c.intervals,
              !.timer = FALSE,
              !.live = c.live \ Tracked(c),
              !.osc = FALSE, !.noiseNode = FALSE, !.lfo = FALSE,
              !.lfoGain = FALSE, !.filter = FALSE,
              !.masterGain = 0,
              !.isPlaying = FALSE]

\* triggerFootstep(): a thud and a click, each a one-shot source held in
\* local variables only
triggerFootstep(c) ==
    [c EXCEPT !.live = c.live \cup {Source(c.patch, "osc", c.now + ThudTicks),
                                    Source(c.patch, "noise", c.now + ClickTicks)}]

\* playFootsteps()
playFootsteps(c) ==
    [triggerFootstep(c) EXCEPT !.timer = TRUE,
                               !.intervals = c.intervals \cup {c.now + FootstepInterval}]

\* playVoices()
playVoices(c) ==
    [c EXCEPT !.noiseNode = TRUE, !.filter = TRUE, !.lfo = TRUE, !.lfoGain = TRUE,
              !.live = c.live \cup {Source(c.patch, "noise", Absent),
                                    Source(c.patch, "lfo", Absent)}]

\* playTraffic()
playTraffic(c) ==
    [c EXCEPT !.osc = TRUE, !.noiseNode = TRUE, !.filter = TRUE,
              !.lfo = TRUE, !.lfoGain = TRUE,
              !.live = c.live \cup {Source(c.patch, "osc", Absent),
                                    Source(c.patch, "noise", Absent),
                                    Source(c.patch, "lfo", Absent)}]

\* playTinnitus()
playTinnitus(c) ==
    [c EXCEPT !.osc = TRUE, !.live = c.live \cup {Source(c.patch, "osc", Absent)}]

\* the part of startSimulation(type) after stop()
StartPatch(c, type) ==
    CASE type = "footsteps" -> playFootsteps(c)
      [] type = "voices"    -> playVoices(c)
      [] type = "traffic"   -> playTraffic(c)
      [] type = "tinnitus"  -> playTinnitus(c)
      [] OTHER -> c

\* startSimulation(type) with the call of stop() left out
startSimulationOnTop(c, type) ==
    StartPatch([c EXCEPT !.masterGain = Unit \div 2,
                         !.currentType = type,
                         !.isPlaying = TRUE,
                         !.patch = c.patch + 1],
               type)

\* startSimulation(type)
startSimulation(c, type) == startSimulationOnTop(stopSimulation(c), type)

\* updateParams(pitch, sharpness, resonance)
updateParams(c, pitch, sharpness, resonance) ==
    IF ~c.isPlaying THEN c
    ELSE [c EXCEPT !.currentParams = [p |-> pitch, s |-> sharpness, r |-> resonance]]

\* the interval callback: if (this.isPlaying) this.triggerFootstep()
footstepInterval(c) ==
    [(IF c.isPlaying THEN triggerFootstep(c) ELSE c) EXCEPT
        !.intervals = (c.intervals \ {c.now}) \cup {c.now + FootstepInterval}]

\* one tick passes: the sources whose stop time has come end
SimulatorTick(c) ==
    [c EXCEPT !.now = c.now + 1,
              !.live = {s \in c.live : s.until = Absent \/ s.until > c.now + 1}]

SimCall(c) == [c EXCEPT !.calls = c.calls + 1]

InitSimulator == Is([InitWorld EXCEPT !.c = NewSimulator])

StartSimulation ==
    \E type \in Categories :
        /\ calc.kind = "simulator"
        /\ calc.calls < SimCalls
        /\ Becomes([Begin("startSimulation") EXCEPT !.c = startSimulation(SimCall(calc), type)])

UpdateParams ==
    \E v \in {0, 100} :
        /\ calc.kind = "simulator"
        /\ calc.calls < SimCalls
        /\ Becomes([Begin("updateParams") EXCEPT !.c = updateParams(SimCall(calc), v, v, v)])

StopSimulation ==
    /\ calc.kind = "simulator"
    /\ calc.calls < SimCalls
    /\ Becomes([Begin("stopSimulation") EXCEPT !.c = stopSimulation(SimCall(calc))])

FootstepIntervalFires ==
    /\ calc.kind = "simulator"
    /\ calc.now \in calc.intervals
    /\ Becomes([Begin("footstepInterval") EXCEPT !.c = footstepInterval(calc)])

SimulatorTime ==
    /\ calc.kind = "simulator"
    /\ calc.now < SimClock
    /\ calc.now \notin calc.intervals
    /\ Becomes([Begin("simulatorTick") EXCEPT !.c = SimulatorTick(calc)])

NextSimulator ==
    \/ StartSimulation
    \/ UpdateParams
    \/ StopSimulation
    \/ FootstepIntervalFires
    \/ SimulatorTime

SpecSimulator == InitSimulator /\ [][NextSimulator]_vars

\* ------------------------------------------------------------------------
\* A late microphone grant: auto mode is switched on and off again on an
\* initialised engine, the pending getUserMedia request resolves at any
\* point, frames run and a sound reaches the microphone.
LateFrames == 4

LateFrame == Frame(LateFrames, 0)

\* the sound reaching the microphone grows from the middle level to the top
SoundGrowsLouder ==
    /\ mic.phase = "during"
    /\ mic.frequencyData = [lo |-> 135, hi |-> 135]
    /\ Becomes([Begin("soundGrows") EXCEPT !.m.frequencyData = [lo |-> 255, hi |-> 255]])

NextLateGrant ==
    \/ ToggleAutoMode
    \/ MicResolve
    \/ LateFrame
    \/ BroadbandSoundStarts
    \/ SoundGrowsLouder
    \/ SoundEnds

SpecLateGrant == InitInitialized /\ [][NextLateGrant]_vars

\* ------------------------------------------------------------------------
\* The adaptive follower alone, in units of 0.0000001: the sliders are set,
\* the detector moves the target, and the loop closure ticks.
FollowerUnit == FineUnit * 10

FollowerTicks == 24

FollowerMoves == 2

\* noise scores the detector reports
FollowerScores == {0, FollowerUnit \div 2000, FollowerUnit \div 20, FollowerUnit \div 5, FollowerUnit}

FollowerSliders == {0, FollowerUnit \div 2, FollowerUnit}

NewFollower(speedValue, decayValue) ==
    [kind |-> "follower", adaptiveGain |-> 0, adaptiveTargetGain |-> 0,
     adaptiveSpeedValue |-> speedValue, adaptiveDecayValue |-> decayValue,
     before |-> 0, ticks |-> 0, moves |-> 0]

InitFollower ==
    \E speedValue, decayValue \in FollowerSliders :
        Is([InitWorld EXCEPT !.c = NewFollower(speedValue, decayValue)])

\* handleAdaptiveUpdate(noiseScore) in auto mode
FollowerTargetMoves ==
    \E noiseScore \in FollowerScores :
        /\ calc.kind = "follower"
        /\ calc.moves < FollowerMoves
        /\ Becomes([Begin("handleAdaptiveUpdate") EXCEPT
                       !.c.adaptiveTargetGain = Min(noiseScore * 2, (4 * FollowerUnit) \div 10),
                       !.c.moves = calc.moves + 1,
                       !.c.before = calc.adaptiveGain])

\* one pass of the loop closure
FollowerTick ==
    /\ calc.kind = "follower"
    /\ calc.ticks < FollowerTicks
    /\ Becomes([Begin("adaptiveLoop") EXCEPT
                   !.c.before = calc.adaptiveGain,
                   !.c.ticks = calc.ticks + 1,
                   !.c.adaptiveGain =
                       FollowedGain(calc.adaptiveGain, calc.adaptiveTargetGain,
                                    calc.adaptiveSpeedValue, calc.adaptiveDecayValue,
                                    FollowerUnit)])

NextFollower ==
    \/ FollowerTargetMoves
    \/ FollowerTick

SpecFollower == InitFollower /\ [][NextFollower]_vars

\* The start button pressed a second time while assets are still loading:
\* initAndLoadSounds() loads every asset again.
ReloadCalls == 3
ReloadClock == 3

\* initAndLoadSounds() with areSoundscapesLoaded still false
loadSoundsAgain(w) ==
    LET ids == LayerIds
        first == CHOOSE id \in ids : TRUE
        second == CHOOSE id \in ids \ {first} : TRUE
    IN  loadSoundAgain(loadSoundAgain(w, first), second)

InitAndLoadSoundsAgain ==
    /\ \A id \in LayerIds : sound.requested[id] /\ sound.reload[id] = "none"
    /\ \E id \in LayerIds : sound.promise[id] = "pending"
    /\ Becomes(loadSoundsAgain(Begin("initAndLoadSounds")))

ReloadResolve ==
    \E id \in LayerIds :
        /\ sound.reload[id] = "pending"
        /\ Becomes(reloadResolved(Begin("loadResolve"), id))

ReloadSliderMoves == SoundSliderMoves(LayerIds, ReloadCalls)

ReloadClockTick == ClockTickTo(ReloadClock)

NextReload ==
    \/ LoadSound
    \/ LoadResolve
    \/ InitAndLoadSoundsAgain
    \/ ReloadResolve
    \/ ReloadSliderMoves
    \/ StopTimerFires
    \/ ReloadClockTick

SpecReload == InitInitialized /\ [][NextReload]_vars

\* The reactive gain across impacts, retriggers and auto-mode cycles.
ReactiveFrames == 3
ReactiveTime == 5
ReactiveCalls == 4

ReactiveFrame == Frame(ReactiveFrames, 0)

ReactiveRender == AdvanceTimeTo(ReactiveTime)

ReactiveToggle == ToggleWithin(ReactiveCalls)

NextReactive ==
    \/ ReactiveFrame
    \/ BroadbandSoundStarts
    \/ SoundGrowsLouder
    \/ ReactiveRender
    \/ ReactiveToggle
    \/ MicResolve

SpecReactive == InitEnvelope /\ [][NextReactive]_vars

\* Detector settings, then auto mode switched off and on again.
CycleCalls == 4
CycleFrames == 2

CycleToggle == ToggleWithin(CycleCalls)

CycleFrame == Frame(CycleFrames, 0)

NextCycle ==
    \/ SetSensitivity
    \/ SetReactiveEnabled
    \/ SetDetectionSimpleMode
    \/ SetDetectionDetailedMode
    \/ CycleToggle
    \/ MicResolve
    \/ CycleFrame

SpecCycle == InitRunning /\ [][NextCycle]_vars

\* The auto-mode switch moved while a microphone request is pending.
StaleCalls == 4
StaleFrames == 3

StaleToggle == ToggleWithin(StaleCalls)

StaleFrame == Frame(StaleFrames, 0)

NextStale ==
    \/ StaleToggle
    \/ MicResolve
    \/ StaleFrame

SpecStale == InitInitialized /\ [][NextStale]_vars

\* The audio context's state-change handler: suspend(), resume() and
\* suspensions by the browser (an interrupted output device).
ContextCalls == 4
Interruptions == 2
ContextFrames == 2

\* what is kept of the handler's runs: its last run, whether suspend() was
\* called since the last resume(), the browser's suspensions so far
NewContextWatch ==
    [kind          |-> "context",
     handler       |-> [ran |-> FALSE],
     stoppedByUser |-> FALSE,
     interruptions |-> 0]

\* ctx.onstatechange without the test of isExplicitlyStopped
onstatechangeAlways(w) ==
    IF w.a.ctxState = "suspended"
    THEN [w EXCEPT !.a.ctxState = "running",
                   !.c.handler = [ran |-> TRUE, state |-> "suspended",
                                  stopped |-> w.c.stoppedByUser, resumed |-> TRUE]]
    ELSE [w EXCEPT !.c.handler = [ran |-> TRUE, state |-> w.a.ctxState,
                                  stopped |-> w.c.stoppedByUser, resumed |-> FALSE]]

\* ctx.onstatechange: a suspended context is resumed unless the user stopped
onstatechange(w) ==
    IF w.a.ctxState = "suspended" /\ ~w.e.isExplicitlyStopped
    THEN [w EXCEPT !.a.ctxState = "running",
                   !.c.handler = [ran |-> TRUE, state |-> "suspended",
                                  stopped |-> w.c.stoppedByUser, resumed |-> TRUE]]
    ELSE [w EXCEPT !.c.handler = [ran |-> TRUE, state |-> w.a.ctxState,
                                  stopped |-> w.c.stoppedByUser, resumed |-> FALSE]]

\* the statechange event of a call that changed the context's state
stateChangedFrom(w, state) ==
    IF w.a.ctxState # state THEN onstatechange(w)
    ELSE [w EXCEPT !.c.handler = [ran |-> FALSE]]

InitContext == Is([InitializedWorld EXCEPT !.c = NewContextWatch])

ContextSuspend ==
    /\ obs.calls < ContextCalls
    /\ Becomes(stateChangedFrom([suspend(Call("suspend")) EXCEPT
                                     !.c.stoppedByUser = TRUE],
                                audio.ctxState))

ContextResume ==
    /\ obs.calls < ContextCalls
    /\ Becomes(stateChangedFrom([resume(Call("resume")) EXCEPT
                                     !.c.stoppedByUser = FALSE],
                                audio.ctxState))

ContextStopButton ==
    /\ obs.calls < ContextCalls
    /\ Becomes(toggleAutoMode(
           stateChangedFrom([suspend(Call("stopButton")) EXCEPT
                                 !.c.stoppedByUser = TRUE],
                            audio.ctxState),
           FALSE))

\* the browser suspends the running context; the handler runs on the event
BrowserSuspends ==
    /\ audio.ctxState = "running"
    /\ calc.interruptions < Interruptions
    /\ Becomes(onstatechange([Begin("browserSuspends") EXCEPT
                                  !.a.ctxState = "suspended",
                                  !.c.interruptions = calc.interruptions + 1]))

ContextToggle == ToggleWithin(ContextCalls)

ContextFrame == Frame(ContextFrames, 0)

NextContext ==
    \/ ContextSuspend
    \/ ContextResume
    \/ ContextStopButton
    \/ BrowserSuspends
    \/ ContextToggle
    \/ MicResolve
    \/ ContextFrame

SpecContext == InitContext /\ [][NextContext]_vars

\* The first tick after start() and after a change of the detection mode;
\* the calls are counted from the running engine on.
FirstTickSettings == 1
FirstTickCalls == 2
FirstTickFrames == 1

\* fresh: a mode setter ran and the detector has not ticked since;
\* first: the tick of the last frame was the first after a mode setter
NewFirstTick == [kind |-> "firstTick", fresh |-> FALSE, first |-> FALSE]

\* the watch after an operation: a tick uses the freshness up
Ticked(w, fresh) ==
    [w EXCEPT !.c.fresh = IF w.o.tick.ran THEN FALSE ELSE fresh,
              !.c.first = w.o.tick.ran /\ fresh]

InitFirstTick ==
    \E val \in Sensitivities :
        Is([setSensitivity(BeginIn(RunningWorld, "setSensitivity"), val)
               EXCEPT !.c = NewFirstTick, !.o.calls = 0])

FirstTickSimpleMode ==
    \E modeId \in DOMAIN SIMPLE_MODES :
        /\ obs.settings < FirstTickSettings
        /\ engine.detector # 0
        /\ Becomes(Ticked([Setting("setSimpleMode") EXCEPT
               !.d[engine.detector] = setSimpleMode(detectors[engine.detector], modeId)],
               TRUE))

FirstTickDetailedMode ==
    \E bandIds \in DetailedChoices :
        /\ obs.settings < FirstTickSettings
        /\ engine.detector # 0
        /\ Becomes(Ticked([Setting("setDetailedMode") EXCEPT
               !.d[engine.detector] = setDetailedMode(detectors[engine.detector], bandIds)],
               TRUE))

FirstTickSuspend ==
    /\ obs.calls < FirstTickCalls
    /\ Becomes(Ticked(suspend(Call("suspend")), calc.fresh))

FirstTickToggle ==
    \E enable \in BOOLEAN :
        /\ obs.calls < FirstTickCalls
        /\ (enable /\ engine.inputScanParams.stream = 0) => mic.issued < MaxMicRequests
        /\ Becomes(Ticked(toggleAutoMode(
               Call(IF enable THEN "toggleAutoMode(true)" ELSE "toggleAutoMode(false)"),
               enable), calc.fresh))

FirstTickMicResolve ==
    /\ mic.pending > 0
    /\ Becomes(Ticked(micResolved(Begin("micResolve")), calc.fresh))

FirstTickFrame ==
    /\ audio.frames # <<>>
    /\ obs.frames < FirstTickFrames
    /\ Becomes(Ticked(RunCallbacks([Begin("frame") EXCEPT !.a.frames = <<>>,
                                                          !.o.frames = obs.frames + 1],
                                   audio.frames, 1, 0),
                      calc.fresh))

NextFirstTick ==
    \/ FirstTickSimpleMode
    \/ FirstTickDetailedMode
    \/ FirstTickSuspend
    \/ FirstTickToggle
    \/ FirstTickMicResolve
    \/ FirstTickFrame
    \/ BroadbandSoundStarts
    \/ SoundGrowsLouder

SpecFirstTick == InitFirstTick /\ [][NextFirstTick]_vars

\* C1: whatever toggleAutoMode calls and getUserMedia outcomes have
\* happened, at most one microphone stream is live; and when the last call
\* was toggleAutoMode(false) and no getUserMedia request is pending, no
\* stream is live, inputScanParams.stream is null and no input node is
\* connected.
OneStreamAndNoneAfterOff ==
    /\ Cardinality(LiveStreams) <= 1
    /\ (obs.lastCall = "toggleAutoMode(false)" /\ mic.pending = 0)
           => /\ LiveStreams = {}
              /\ engine.inputScanParams.stream = 0
              /\ \A k \in DetIds : ~mic.connected[k]

\* a gain stage that rests at 1.0 or whose last scheduled event leads to 1.0
DrivenToUnity(p) ==
    IF p.events = <<>> THEN p.value = Unit
    ELSE p.events[Len(p.events)].value = Unit

\* C8: right after suspend() on an initialised engine the context is
\* suspended, neither the adaptive nor the fluctuation loop nor the detector
\* loop has a frame pending, adaptiveGain and adaptiveTargetGain are 0 and
\* the adaptive and reactive gain stages are driven to 1.0.
SuspendHaltsEverything ==
    (obs.op = "suspend" /\ engine.ctx # 0)
        => /\ audio.ctxState = "suspended"
           /\ Pending(AdaptiveLoop) = 0
           /\ Pending(FluctuationLoop) = 0
           /\ \A k \in DetIds : Pending(DetectorLoop(k)) = 0
           /\ engine.detector # 0 => ~detectors[engine.detector].isRunning
           /\ engine.adaptiveGain = 0
           /\ engine.adaptiveTargetGain = 0
           /\ DrivenToUnity(audio.adaptiveParam)
           /\ DrivenToUnity(audio.reactiveParam)

\* C2: an impact of a detector comes at least 20 of its ticks after its
\* previous impact, whatever the input and whatever setters ran in between.
ImpactsTwentyTicksApart ==
    (obs.tick.ran /\ obs.tick.fired /\ obs.tick.gap # Absent)
        => obs.tick.gap >= 20

\* an impact exactly 20 ticks after the previous one
ImpactOnTwentiethTick ==
    obs.tick.ran /\ obs.tick.fired /\ obs.tick.gap = 20

\* C4: a tick fires an impact exactly when reactive detection is enabled,
\* no cooldown is left after the tick's decrement and the maximum deviation
\* exceeds 0.3 * (1 - sensitivity) + 0.05; its intensity is
\* min(maxDeviation * 3, 1.0).
ImpactIffAboveThreshold ==
    obs.tick.ran =>
        LET t == obs.tick
            threshold == (3 * (Unit - t.sensitivity)) \div 10 + Unit \div 20
        IN  /\ t.fired <=> (t.reactiveEnabled /\ t.cooldown = 0
                             /\ t.maxDeviation > threshold)
            /\ t.fired => t.intensity = Min(3 * t.maxDeviation, Unit)

\* an impact whose intensity is below 1.0, and so three times the deviation
UnsaturatedImpact ==
    obs.tick.ran /\ obs.tick.fired /\ obs.tick.intensity < Unit

\* the one tick so far that ran on the sound saw a deviation of 0.5 (within
\* 0.01) with reactive detection enabled
SingleSpike ==
    /\ obs.spike.seen
    /\ obs.loudTicks = 1
    /\ obs.spike.reactiveEnabled
    /\ Abs(obs.spike.maxDeviation - Unit \div 2) <= Unit \div 100

\* C5: in auto mode, on an input silent but for one tick with a broadband
\* spike of deviation 0.5, the spike's tick fires the only impact and raises
\* the noise score, and every later tick multiplies the score by 0.92, so
\* that it falls.
SpikeFiresOnceThenScoreDecays ==
    SingleSpike =>
        /\ obs.spike.fired
        /\ obs.spike.score > obs.spike.scoreBefore
        /\ obs.impacts = 1
        /\ (mic.phase = "after" /\ obs.tick.ran) =>
               /\ ~obs.tick.fired
               /\ obs.tick.score = (92 * obs.tick.scoreBefore) \div 100
               /\ obs.tick.score <= obs.tick.scoreBefore
               /\ obs.tick.scoreBefore > 0 => obs.tick.score < obs.tick.scoreBefore

\* a tick after the spike on which the score fell
ScoreFallsAfterSpike ==
    /\ SingleSpike
    /\ engine.isAutoMode
    /\ mic.phase = "after"
    /\ obs.tick.ran
    /\ obs.tick.score < obs.tick.scoreBefore
    /\ obs.impacts = 1

\* C3: with reactive detection enabled, sensitivity 1.0 (threshold 0.05) and
\* no cooldown left on the first of them, 40 consecutive ticks whose maximum
\* deviation exceeds the threshold fire exactly two impacts, on the first
\* tick and on the twenty-first (ticks 0 and 20).
TwoImpactsInFortyTicks ==
    (obs.run.valid /\ obs.run.len >= 40) => obs.run.firedAt = {0, 20}

\* 40 consecutive ticks above the threshold have run
FortyTicksAboveThreshold ==
    obs.run.valid /\ obs.run.len >= 40 /\ obs.tick.ran /\ obs.tick.sensitivity = Unit

\* C6: right after setSimpleMode, setDetailedMode or toggleBand the
\* detector's baseline map is empty.
BandSettersClearBaselines ==
    (obs.op \in {"setSimpleMode", "setDetailedMode", "toggleBand"}
     /\ engine.detector # 0)
        => detectors[engine.detector].baselineEnergies = NoBaselines

\* C7: once toggleAutoMode(false) was the last call, no render step moves
\* the adaptive or the reactive gain further from 1.0 than it was, and
\* neither the detector loop nor the adaptive loop has a frame pending.
GainsSettleAfterAutoModeOff ==
    obs.lastCall = "toggleAutoMode(false)" =>
        /\ Pending(AdaptiveLoop) = 0
        /\ \A k \in DetIds : Pending(DetectorLoop(k)) = 0
        /\ obs.render.ran =>
               /\ Abs(audio.adaptiveParam.value - Unit)
                      <= Abs(obs.render.adaptive - Unit)
               /\ Abs(audio.reactiveParam.value - Unit)
                      <= Abs(obs.render.reactive - Unit)

\* the events of the reactive gain at or after the handled impact's time
EventsFromImpact ==
    SelectSeq(audio.reactiveParam.events, LAMBDA e : e.time >= obs.impact.now)

\* the impact was handled while an earlier envelope still had events ahead
ImpactMidEnvelope ==
    /\ obs.impact.handled
    /\ \E i \in 1..Len(obs.impact.before.events) :
           obs.impact.before.events[i].time > obs.impact.now

\* C9: an impact handled while an earlier envelope is in progress leaves
\* none of that envelope's events at or after its time, only the four of
\* the new envelope, and the new envelope starts at the value the gain had:
\* the gain does not jump.
RetriggerStartsFromCurrentValue ==
    ImpactMidEnvelope =>
        /\ Len(EventsFromImpact) = 4
        /\ EventsFromImpact[1].type = "setValue"
        /\ EventsFromImpact[1].time = obs.impact.now
        /\ EventsFromImpact[1].value = obs.impact.before.value
        /\ \A i \in 1..4 : EventsFromImpact[i].time
                                <= obs.impact.now + StepsPerSecond \div 10
                                   + obs.impact.duration * StepsPerSecond
        /\ audio.reactiveParam.value = obs.impact.before.value
        /\ ParamValueAt(audio.reactiveParam, obs.impact.now, obs.impact.now)
              = obs.impact.before.value

\* an impact handled while the gain is boosted by the earlier envelope
RetriggerWhileBoosted ==
    ImpactMidEnvelope /\ obs.impact.before.value > Unit

\* C10: a handled impact of intensity i schedules, in this order, a linear
\* ramp to 1.0 + i * strength * 3 ending at now + 0.1 s, a hold of that
\* value until now + 0.1 s + duration * 0.5, and an exponential ramp to
\* exactly 1.0 ending at now + 0.1 s + duration; with strength 0.3,
\* duration 10 and intensity 1.0 the peak is 1.9.
EnvelopeRampHoldDecay ==
    obs.impact.handled =>
        LET im   == obs.impact
            peak == Unit + 3 * ((im.intensity * im.strength) \div Unit)
            rise == im.now + StepsPerSecond \div 10
            ev   == audio.reactiveParam.events
            n    == Len(ev)
        IN  /\ n >= 3
            /\ ev[n - 2].type = "linearRamp"
            /\ ev[n - 2].value = peak
            /\ ev[n - 2].time = rise
            /\ ev[n - 1].type = "setValue"
            /\ ev[n - 1].value = peak
            /\ ev[n - 1].time = rise + (im.duration * StepsPerSecond) \div 2
            /\ ev[n].type = "exponentialRamp"
            /\ ev[n].value = Unit
            /\ ev[n].time = rise + im.duration * StepsPerSecond
            /\ (im.intensity = Unit /\ im.strength = (3 * Unit) \div 10)
                   => peak = (19 * Unit) \div 10

\* an impact of intensity 1.0 handled with strength 0.3 and duration 10
FullImpactAtDefaults ==
    /\ obs.impact.handled
    /\ obs.impact.intensity = Unit
    /\ obs.impact.strength = (3 * Unit) \div 10
    /\ obs.impact.duration = 10
    /\ audio.reactiveParam.events[Len(audio.reactiveParam.events) - 2].value
          = (19 * Unit) \div 10

\* C11: every multiplier applyAdaptiveGain hands to the adaptive gain stage is
\* exactly 1.0 or lies in [1.10, 2.2]; it is 1.0 whenever 1.0 + adaptiveGain * 3
\* is below 1.10, and the target gain behind it never exceeds 0.4.
AdaptiveMultiplierSnappedAndCapped ==
    /\ engine.adaptiveTargetGain >= 0
    /\ engine.adaptiveTargetGain <= (4 * Unit) \div 10
    /\ obs.applied.ran =>
        /\ \/ obs.applied.multiplier = Unit
           \/ /\ obs.applied.multiplier >= (11 * Unit) \div 10
              /\ obs.applied.multiplier <= (22 * Unit) \div 10
        /\ Unit + obs.applied.gain * 3 < (11 * Unit) \div 10
              => obs.applied.multiplier = Unit
        /\ \E i \in 1..Len(audio.adaptiveParam.events) :
              /\ audio.adaptiveParam.events[i].type = "setTarget"
              /\ audio.adaptiveParam.events[i].time = audio.currentTime
              /\ audio.adaptiveParam.events[i].value = obs.applied.multiplier

\* the follower applies a multiplier above the dead zone while the target is capped
AdaptiveBoostApplied ==
    /\ obs.applied.ran
    /\ obs.applied.multiplier >= (11 * Unit) \div 10
    /\ engine.adaptiveTargetGain = (4 * Unit) \div 10

\* layer id was set positive, then to 0, then positive again less than 300 ms later
SetZeroAndBackWithinDelay(id) ==
    /\ Len(obs.volumeCalls[id]) = 3
    /\ obs.volumeCalls[id][1].volume > 0
    /\ obs.volumeCalls[id][2].volume = 0
    /\ obs.volumeCalls[id][3].volume > 0
    /\ obs.volumeCalls[id][3].at - obs.volumeCalls[id][2].at < STOP_DELAY

\* C12: a loaded layer set positive, then to 0, then positive again within the
\* 300 ms of the stop delay keeps playing: startSound has run once and
\* stopSound never, however long one waits afterwards.
DebounceKeepsPlaying ==
    \A id \in LayerIds :
        SetZeroAndBackWithinDelay(id) =>
            /\ obs.starts[id] = 1
            /\ obs.stops[id] = 0
            /\ sound.layers[id].isPlaying
            /\ sound.layers[id].hasSource

\* the stop timer of the zero-setting has fired after the volume came back
DebounceTimerFired ==
    \E id \in LayerIds :
        /\ SetZeroAndBackWithinDelay(id)
        /\ sound.timers = <<>>
        /\ obs.op = "stopTimer"
        /\ sound.clock = obs.volumeCalls[id][2].at + STOP_DELAY

\* the calls of a history that took the volume from a nonzero value to 0
ZeroTransitions(h) ==
    {i \in 1..Len(h) : h[i].volume = 0 /\ (IF i = 1 THEN TRUE ELSE h[i - 1].volume # 0)}

\* the time of the most recent transition to 0 in a history that has one
LatestZeroAt(h) ==
    h[CHOOSE i \in ZeroTransitions(h) : \A j \in ZeroTransitions(h) : j <= i].at

\* C13: a playback is stopped no less than 300 ms after the layer's most
\* recent transition to volume 0.
StopOnlyAfterFullDelay ==
    obs.stopped.ran =>
        /\ ZeroTransitions(obs.volumeCalls[obs.stopped.id]) # {}
        /\ obs.stopped.at - LatestZeroAt(obs.volumeCalls[obs.stopped.id]) >= STOP_DELAY

\* C14: however often init() is called, and whenever, one audio context and
\* one signal graph are created at most.
InitSetsUpOnce ==
    /\ audio.contexts <= 1
    /\ audio.graphs <= 1

\* C15: once init() has failed, with no other init() in flight, the engine is
\* not initialized and references no audio context.
FailedInitLeavesNothing ==
    (obs.op = "initReject" /\ audio.initAwaiting = 0) =>
        /\ ~engine.isInitialized
        /\ ~engine.hasGraph
        /\ engine.ctx = 0

\* C16: once the microphone has been denied, with no other request in flight,
\* auto mode is off and neither the detector loop nor the adaptive loop runs.
DeniedMicrophoneDisablesAutoMode ==
    (obs.op = "micReject" /\ mic.pending = 0) =>
        /\ ~engine.isAutoMode
        /\ engine.adaptiveAnimationId = 0
        /\ \A k \in DetIds : ~detectors[k].isRunning

\* the load of layer id has failed
LoadHasFailed(id) == sound.promise[id] = "fulfilled" /\ ~sound.layers[id].loaded

NegativeGainIsNoOp ==
    (obs.gainCall.ran /\ obs.op # "setEQBand" /\ obs.gainCall.value < 0) =>
        /\ ~obs.gainCall.scheduled
        /\ audio = obs.gainCall.audio
        /\ engine = obs.gainCall.engine

\* the baseline keys a tick analyses: the enabled bands, or "all" with none
AnalysedKeys(bandIds) ==
    IF Len(bandIds) = 0 THEN {"all"}
    ELSE {bandIds[i] : i \in 1..Len(bandIds)} \cap BandIds

\* C20: right after a tick's baseline update the baseline of every band the
\* tick analysed is at least 0.3 times the noise gain the detector held.
BaselineFlooredByNoiseGain ==
    obs.tick.ran =>
        \A key \in AnalysedKeys(obs.tick.bandIds) :
            obs.tick.baselines[key] >= MulDiv(obs.tick.noiseGain, 3, 10)

\* a tick on silence leaves the baselines of its bands at the floor
BaselineHeldAtFloor ==
    /\ obs.tick.ran
    /\ obs.tick.energy = 0
    /\ obs.tick.noiseGain > 0
    /\ Len(obs.tick.bandIds) > 0
    /\ \A key \in AnalysedKeys(obs.tick.bandIds) :
          obs.tick.baselines[key] = MulDiv(obs.tick.noiseGain, 3, 10)

\* C21: after a step from 0.1 to 0.5 the baseline rises at every tick until
\* it is within 1% of 0.5, never passes 0.5, and is within 1% of 0.5 before
\* the baseline of a drop from 0.5 to 0.1 is within 1% of 0.1.
BaselineRisesFasterThanItFalls ==
    calc.kind = "baseline" =>
        /\ calc.rise <= HighEnergy
        /\ calc.rise >= calc.prevRise
        /\ (calc.ticks > 0 /\ ~WithinOnePercent(calc.prevRise, HighEnergy))
              => calc.rise > calc.prevRise
        /\ calc.fallAt # Absent => (calc.riseAt # Absent /\ calc.riseAt < calc.fallAt)

\* both baselines have come within 1% of their targets
BothBaselinesSettled ==
    /\ calc.kind = "baseline"
    /\ calc.riseAt # Absent
    /\ calc.fallAt # Absent

\* max(0, energy - baseline) of band bandId for spectrum fd, with the
\* baselines as they were before the tick
DeviationOf(fd, baselines, bandId) ==
    Max(0, GetBandEnergy(fd, DETECTION_BANDS[bandId].minFreq, DETECTION_BANDS[bandId].maxFreq)
           - BaselineOr(baselines, bandId,
                        GetBandEnergy(fd, DETECTION_BANDS[bandId].minFreq,
                                      DETECTION_BANDS[bandId].maxFreq)))

\* the sum of the deviations of the detection bands among bandIds[1..n]
RECURSIVE SumOfDeviations(_, _, _, _)
SumOfDeviations(fd, baselines, bandIds, n) ==
    IF n = 0 THEN 0
    ELSE SumOfDeviations(fd, baselines, bandIds, n - 1)
         + (IF bandIds[n] \in BandIds THEN DeviationOf(fd, baselines, bandIds[n]) ELSE 0)

\* the aggregate deviation of a tick: the full-spectrum deviation with no
\* band enabled, else the sum of the bands' deviations over their number
AggregateDeviation(fd, baselines, bandIds) ==
    IF Len(bandIds) = 0
    THEN Max(0, GetBandEnergy(fd, 20, 20000)
                - BaselineOr(baselines, "all", GetBandEnergy(fd, 20, 20000)))
    ELSE SumOfDeviations(fd, baselines, bandIds, Len(bandIds)) \div Len(bandIds)

\* C22: a tick leaves score * 0.92 + deviation * 0.08 as the noise score,
\* the deviation being the mean of max(0, energy - baseline) over the enabled
\* bands or the full-spectrum deviation, and reports that score once.
ScoreIsSmoothedMeanDeviation ==
    /\ Len(obs.scoreUpdates) = obs.ticksInOp
    /\ obs.tick.ran =>
        /\ obs.tick.totalDeviation =
              AggregateDeviation(obs.tick.fd, obs.tick.baselinesBefore, obs.tick.bandIds)
        /\ obs.tick.score =
              (obs.tick.scoreBefore * 92 + obs.tick.totalDeviation * 8) \div 100
        /\ detectors[obs.tick.det].noiseScore = obs.tick.score
        /\ obs.scoreUpdates = <<obs.tick.score>>

\* a tick with several bands enabled whose deviations differ
TickAveragesUnequalBands ==
    /\ obs.tick.ran
    /\ Len(obs.tick.bandIds) > 1
    /\ obs.tick.maxDeviation > obs.tick.totalDeviation
    /\ obs.tick.totalDeviation > 0
    /\ obs.tick.scoreBefore > 0
\* the last instruction on the fluctuation stage's gain is an approach to 1.0
\* that has begun, and the gain lies between its value at the call and 1.0
FluctuationHeadsToOne ==
    LET p  == audio.fluctuationParam
        ev == p.events
    IN  IF ev = <<>> THEN p.value = Unit
        ELSE LET e == ev[Len(ev)]
             IN  /\ e.type = "setTarget"
                 /\ e.value = Unit
                 /\ e.time <= audio.currentTime
                 /\ Min(e.v0, Unit) <= p.value
                 /\ p.value <= Max(e.v0, Unit)
                 /\ Abs(p.value - Unit) <= Abs(e.v0 - Unit)

\* C23: while fluctuation is switched off (from setFluctuation(false) until
\* the next setFluctuation(true)) no fluctuation frame is pending, the frame
\* id is cleared, and the only instruction left on the fluctuation gain is
\* the approach to exactly 1.0 that setFluctuation(false) scheduled.
FluctuationOffStopsAndResets ==
    ~engine.isFluctuationEnabled =>
        /\ Pending(FluctuationLoop) = 0
        /\ engine.fluctuationAnimationId = 0
        /\ FluctuationHeadsToOne

\* fluctuation was switched off while the stage's gain was away from 1.0
FluctuationSwitchedOffAwayFromOne ==
    /\ obs.op = "setFluctuation"
    /\ ~engine.isFluctuationEnabled
    /\ engine.hasGraph
    /\ audio.fluctuationParam.value # Unit
    /\ audio.frames = <<>>

\* C24: a render block whose noise gains (white, pink, brown, dark, and
\* rumble where the processor has it) are all 0 writes 0 to every sample of
\* every channel, draws no random sample and leaves every generator state
\* (b0..b6, lastBrown, lastDark, the rumble phases) as it was.
SilentBlockComputesNothing ==
    (calc.kind = "noise" /\ calc.blocks > 0 /\ AllGainsZero(calc.g, calc.hasRumble)) =>
        /\ \A c \in 1..Len(calc.out) : \A i \in 1..BlockLen : calc.out[c][i] = 0
        /\ calc.draws = 0
        /\ calc.st = calc.before

\* a silent two-channel block rendered while the generator holds state
SilentBlockAfterNoise ==
    /\ calc.kind = "noise"
    /\ AllGainsZero(calc.g, calc.hasRumble)
    /\ Len(calc.out) = 2
    /\ calc.st.lastBrown # 0
    /\ calc.st.b0 # 0

\* C25: every channel of a rendered block holds the same samples.
ChannelsIdentical ==
    calc.kind = "noise" => \A c \in 1..Len(calc.out) : calc.out[c] = calc.out[1]

\* C29: at full gain no output sample exceeds 2.0 in magnitude.
PeakWithinTwo ==
    calc.kind = "noise" =>
        \A c \in 1..Len(calc.out) : \A i \in 1..BlockLen : Abs(calc.out[c][i]) <= 2 * Unit

InUnit(v) == 0 <= v /\ v <= Unit

TunedEqFitsEngine ==
    (calc.kind = "tuner" /\ calc.calls > 0) =>
        /\ Len(calc.result.eq) = EqBandCount
        /\ calc.saved =>
              \A i \in 1..Len(calc.result.eq) :
                  i <= Len(audio.eqFilters) /\ audio.eqFilters[i] = calc.result.eq[i]

\* C28: once startSimulation has built a patch, every live source node
\* belongs to that patch and at most one interval timer is live; after any
\* sequence of calls at most one interval timer is live.
OnlyCurrentPatchLive ==
    calc.kind = "simulator" =>
        /\ Cardinality(calc.intervals) <= 1
        /\ calc.isPlaying => \A s \in calc.live : s.patch = calc.patch

\* C30: a frame that runs while auto mode is off leaves adaptiveTargetGain
\* and the reactive stage's automation as they were, whatever the detector
\* loop delivers in it.
CallbacksIgnoredWhileAutoModeOff ==
    [][(~engine.isAutoMode /\ obs'.op = "frame") =>
          /\ engine'.adaptiveTargetGain = engine.adaptiveTargetGain
          /\ audio'.reactiveParam = audio.reactiveParam]_vars

\* with auto mode off, a detector tick reported an impact and a positive score
ImpactDeliveredWhileAutoModeOff ==
    /\ ~engine.isAutoMode
    /\ obs.op = "frame"
    /\ obs.tick.ran
    /\ obs.tick.fired
    /\ obs.tick.score > 0
    /\ obs.scoreUpdates # <<>>

\* the fraction of the difference the claim states, in units of 0.00001
StatedFraction(diff) ==
    IF diff > 0 THEN 50 + (calc.adaptiveSpeedValue * 39) \div (FollowerUnit \div 50)
    ELSE 10 + ((FollowerUnit - calc.adaptiveDecayValue) * 19) \div (FollowerUnit \div 10)

\* C31: a follower tick with |target - gain| > 0.001 moves adaptiveGain
\* toward the target by 0.0005 + speed * 0.0195 of the difference when
\* rising and by 0.0001 + (1 - decay) * 0.0019 of it when falling, never
\* past the target; any other tick leaves it; adaptiveGain stays in [0, 0.4].
FollowerApproachesWithoutCrossing ==
    (calc.kind = "follower" /\ obs.op = "adaptiveLoop") =>
        LET diff == calc.adaptiveTargetGain - calc.before
        IN  /\ Abs(diff) > FollowerUnit \div 1000 =>
                /\ calc.adaptiveGain - calc.before
                       = FractionOf(diff, StatedFraction(diff))
                /\ Abs(calc.adaptiveTargetGain - calc.adaptiveGain) < Abs(diff)
                /\ (diff > 0) = (calc.adaptiveTargetGain > calc.adaptiveGain)
                /\ calc.adaptiveTargetGain # calc.adaptiveGain
            /\ Abs(diff) <= FollowerUnit \div 1000 => calc.adaptiveGain = calc.before
            /\ 0 <= calc.adaptiveGain
            /\ calc.adaptiveGain <= (4 * FollowerUnit) \div 10

\* a tick in which the gain falls toward a lower target after having risen
FollowerFalls ==
    /\ calc.kind = "follower"
    /\ obs.op = "adaptiveLoop"
    /\ calc.adaptiveGain < calc.before
    /\ calc.adaptiveTargetGain < calc.adaptiveGain
    /\ calc.adaptiveDecayValue = FollowerUnit \div 2

\* C32: in every reachable state a loaded layer whose volume is positive is
\* playing, with a source attached.
PositiveVolumePlays ==
    \A id \in LayerIds :
        (sound.layers[id].loaded /\ sound.layers[id].volume > 0)
            => (sound.layers[id].isPlaying /\ sound.layers[id].hasSource)

\* C33: the reactive stage's gain is at least 1.0 in every reachable state,
\* and so is every value on its automation timeline.
ReactiveGainAtLeastOne ==
    /\ audio.reactiveParam.value >= Unit
    /\ \A i \in 1..Len(audio.reactiveParam.events) :
           audio.reactiveParam.events[i].value >= Unit

\* an impact was handled while the gain was above 1.0, after auto mode had
\* been switched off and on again
RetriggerAfterAutoModeCycle ==
    /\ obs.impact.handled
    /\ obs.impact.before.value > Unit
    /\ obs.lastCall = "toggleAutoMode(true)"
    /\ engine.detector = 2

\* C34: a tick of a detector in detailed mode with no band enabled reports
\* deviation 0, fires no impact and leaves the noise score no higher.
EmptyDetailedListIsQuiet ==
    (obs.op = "frame" /\ obs.tick.ran
     /\ ~detectors[obs.tick.det].isSimpleMode
     /\ obs.tick.bandIds = <<>>)
        => /\ obs.tick.maxDeviation = 0
           /\ obs.tick.totalDeviation = 0
           /\ ~obs.tick.fired
           /\ obs.tick.score <= obs.tick.scoreBefore

\* C35: the detector that runs after toggleAutoMode(false) and
\* toggleAutoMode(true) has the sensitivity, the reactiveEnabled flag and the
\* enabled bands of the detector that ran before.
SettingsSurviveAutoModeCycle ==
    (obs.op = "micResolve" /\ engine.detector = 2)
        => /\ detectors[2].isRunning
           /\ detectors[2].sensitivity = detectors[1].sensitivity
           /\ detectors[2].reactiveEnabled = detectors[1].reactiveEnabled
           /\ detectors[2].enabledBandIds = detectors[1].enabledBandIds

\* C36: whenever auto mode is on and the microphone stream is held, a tick
\* of the adaptive follower loop is pending.
FollowerPendingInAutoMode ==
    (engine.isAutoMode /\ engine.inputScanParams.stream # 0)
        => Pending(AdaptiveLoop) >= 1

\* C37: at most one detector has its tick loop pending, at most one tick of
\* the adaptive follower is pending and at most one fluctuation tick.
AtMostOneLoopEach ==
    /\ Cardinality({k \in DetIds : Pending(DetectorLoop(k)) >= 1
                                   /\ detectors[k].isRunning}) <= 1
    /\ \A k \in DetIds : Pending(DetectorLoop(k)) <= 1
    /\ Pending(AdaptiveLoop) <= 1
    /\ Pending(FluctuationLoop) <= 1

\* C38: a run of the state-change handler resumes the context exactly when
\* the context is suspended and suspend() was not called since the last
\* resume(); after suspend() the context stays suspended until resume().
HandlerResumesUnlessStopped ==
    /\ calc.handler.ran =>
           (calc.handler.resumed
                <=> (calc.handler.state = "suspended" /\ ~calc.handler.stopped))
    /\ calc.stoppedByUser => audio.ctxState = "suspended"
    /\ ~calc.stoppedByUser => audio.ctxState = "running"

\* the browser suspended the context after a suspend() and a resume(), and
\* the handler resumed it
ResumedAfterInterruption ==
    /\ obs.op = "browserSuspends"
    /\ calc.handler.resumed
    /\ obs.lastCall = "resume"
    /\ obs.calls >= 3

\* the last tick found no deviation and fired no impact
TickWasQuiet ==
    /\ obs.tick.maxDeviation = 0
    /\ obs.tick.totalDeviation = 0
    /\ ~obs.tick.fired

\* C39: the tick that start() runs, and the first tick after setSimpleMode
\* or setDetailedMode, finds deviation 0 in every band and fires no impact.
FirstTickIsQuiet ==
    /\ (obs.op \in {"toggleAutoMode(true)", "micResolve"} /\ obs.tick.ran)
           => TickWasQuiet
    /\ (obs.op = "frame" /\ obs.tick.ran /\ calc.first) => TickWasQuiet

\* the first tick after setDetailedMode at sensitivity 1, on a loud sound
\* that started after the tick of start() on silence
FirstTickOnLoudSound ==
    /\ obs.op = "frame"
    /\ obs.tick.ran
    /\ calc.first
    /\ obs.lastCall = "setDetailedMode"
    /\ obs.tick.bandIds # <<>>
    /\ obs.tick.sensitivity = Unit
    /\ obs.tick.energy >= Unit \div 2

====
